---- MODULE Spec2Model ----
(***************************************************************************)
(* A model of the GitHub MCP server's batch tools: create_issues,          *)
(* batch_update_issues, batch_add_labels and batch_link_to_project, the    *)
(* per-item operations they dispatch to a ThreadPoolExecutor, the error    *)
(* normalizer handle_github_error and the client singleton.                *)
(*                                                                         *)
(* Conventions.                                                            *)
(*  - A Python str is a sequence of atoms; every digit is an atom of its   *)
(*    own, so that `"404" in s` is a real substring test on digits.        *)
(*  - A Python dict is a record (a function from its keys); `k in d` is    *)
(*    `k \in DOMAIN d`.                                                    *)
(*  - A call that may raise yields Ok(v) or Raise(e).                      *)
(*  - None is the record NoneVal.                                          *)
(***************************************************************************)
EXTENDS Integers, Sequences, FiniteSets, TLC

\* ---------------------------------------------------------------- bounds

\* Longest batch whose concurrent execution is explored under every
\* interleaving and every remote fault.
MaxItems == 2

\* Longest exception text, in words, handed to the error normalizer.
MaxWords == 2

\* ------------------------------------------------------- Python plumbing

NoneVal == [None |-> TRUE]

Ok(v) == [raised |-> FALSE, v |-> v]

Raise(e) == [raised |-> TRUE, e |-> e]

\* `p in s` for Python strings.
Contains(s, p) ==
    \E i \in 1..(Len(s) - Len(p) + 1) : SubSeq(s, i, i + Len(p) - 1) = p

\* str(n) for a natural number n: its decimal digits.
DigitAtom(d) ==
    CASE d = 0 -> "0" [] d = 1 -> "1" [] d = 2 -> "2" [] d = 3 -> "3"
      [] d = 4 -> "4" [] d = 5 -> "5" [] d = 6 -> "6" [] d = 7 -> "7"
      [] d = 8 -> "8" [] d = 9 -> "9"

RECURSIVE StrInt(_)
StrInt(n) == IF n < 10 THEN <<DigitAtom(n)>>
             ELSE StrInt(n \div 10) \o <<DigitAtom(n % 10)>>

\* str.lower() on the atoms that carry an upper-case letter in this model.
LowerAtom(a) ==
    CASE a = "Title" -> "title" [] a = "Body" -> "body"
      [] a = "Head" -> "head" [] a = "Base" -> "base"
      [] OTHER -> a

Lower(s) == [i \in 1..Len(s) |-> LowerAtom(s[i])]

\* "\n".join(...) and friends: the concatenation of a sequence of strings
\* with a separator between neighbours.
RECURSIVE Join(_, _)
Join(sep, ss) ==
    IF Len(ss) = 0 THEN <<>>
    ELSE IF Len(ss) = 1 THEN ss[1]
    ELSE ss[1] \o sep \o Join(sep, Tail(ss))

\* ------------------------------------------------------------ exceptions

\* An exception object: its class name, its `status` attribute (<<>> when
\* the object has none), its `data` attribute (NoData when it has none)
\* and its str().
NoData == [kind |-> "None"]

Exc(type, status, data, text) ==
    [type |-> type, status |-> status, data |-> data, str |-> text]

ValueError(text) == Exc("ValueError", <<>>, NoData, text)

TypeError(text) == Exc("TypeError", <<>>, NoData, text)

KeyError(text) == Exc("KeyError", <<>>, NoData, text)

\* github.GithubException(status, data): str() starts with the status.
GithubException(status, data, body) ==
    Exc("GithubException", <<status>>, data, StrInt(status) \o <<" ">> \o body)

\* ------------------------------------------------- utils/errors.py

GitHubAPIError(code, message, details, suggestions) ==
    [code |-> code, message |-> message, details |-> details,
     suggestions |-> suggestions]

\* Faulty variant: to_dict leaves the suggestions out.
GitHubAPIError_to_dict_NoSuggestions(self) ==
    [error |-> TRUE, code |-> self.code, message |-> self.message,
     details |-> self.details, suggestions |-> <<>>]

GitHubAPIError_to_dict(self) ==
    [error |-> TRUE, code |-> self.code, message |-> self.message,
     details |-> self.details, suggestions |-> self.suggestions]

\* dict.get(key, default) on a record.
Get(d, key, default) == IF key \in DOMAIN d THEN d[key] ELSE default

\* The text appended to field_errors for one entry of data["errors"];
\* <<>> when the entry is neither a dict nor a str (nothing is appended).
FieldErrorOf(error) ==
    IF error.kind = "dict" THEN
        LET field == Get(error.d, "field", <<"unknown">>)
            code == Get(error.d, "code", <<"invalid">>)
            error_message == Get(error.d, "message", <<>>)
        IN  IF error_message # <<>>
              THEN << <<"Field '">> \o field \o <<"': ">> \o error_message >>
            ELSE IF code = <<"missing_field">>
              THEN << <<"Field '">> \o field \o <<"' is required but missing">> >>
            ELSE IF code = <<"invalid">>
              THEN << <<"Field '">> \o field \o <<"' has an invalid value">> >>
            ELSE IF code = <<"already_exists">>
              THEN << <<"Field '">> \o field \o <<"' already exists (duplicate)">> >>
            ELSE IF code = <<"custom">>
              THEN << <<"Field '">> \o field \o <<"': custom validation error">> >>
            ELSE << <<"Field '">> \o field \o <<"': ">> \o code >>
    ELSE IF error.kind = "str" THEN << error.s >>
    ELSE <<>>

RECURSIVE FieldErrors(_)
FieldErrors(errors) ==
    IF Len(errors) = 0 THEN <<>>
    ELSE FieldErrorOf(Head(errors)) \o FieldErrors(Tail(errors))

\* _extract_validation_errors(data): (main_message, field_errors), or the
\* TypeError of `for error in errors` when data["errors"] is not iterable.
_extract_validation_errors(data) ==
    IF data.kind # "dict" THEN Ok(<< <<"Validation failed">>, <<>> >>)
    ELSE
        LET message == Get(data.d, "message", <<"Validation failed">>)
            errors == Get(data.d, "errors", [kind |-> "list", items |-> <<>>])
        IN  IF errors.kind # "list"
              THEN Raise(TypeError(<<"object is not iterable">>))
            ELSE Ok(<<message, FieldErrors(errors.items)>>)

AnyMentions(field_errors, word) ==
    \E k \in 1..Len(field_errors) : Contains(Lower(field_errors[k]), <<word>>)

\* `status == code or "<code>" in error_str`.
Matches(error, code) ==
    error.status = <<code>> \/ Contains(error.str, StrInt(code))

\* The GitHubAPIError built by each `return` of handle_github_error.
NotFound(error) ==
    GitHubAPIError("RESOURCE_NOT_FOUND", error.str, [status |-> 404],
        << <<"Verify the resource exists">>,
           <<"Check you have access to this repository">> >>)

\* Faulty variant: the 403 error echoes the exception text.
Forbidden_Echo(error) ==
    GitHubAPIError("FORBIDDEN", error.str, [status |-> 403],
        << <<"Verify GITHUB_TOKEN has required scopes">>,
           <<"Check repository access permissions">> >>)

Forbidden(error) ==
    GitHubAPIError("FORBIDDEN",
        <<"Access denied. Check token permissions.">>, [status |-> 403],
        << <<"Verify GITHUB_TOKEN has required scopes">>,
           <<"Check repository access permissions">> >>)

Unauthorized(error) ==
    GitHubAPIError("UNAUTHORIZED", <<"Authentication failed.">>,
        [status |-> 401],
        << <<"Verify GITHUB_TOKEN is valid">>, <<"Token may have expired">> >>)

\* The 422 branch: the error built from what _extract_validation_errors
\* returned, or the exception that left it.
ValidationFailed(error) ==
    LET data == error.data
        extracted == _extract_validation_errors(data)
    IN  IF extracted.raised THEN extracted
        ELSE
        LET main_message == extracted.v[1]
            field_errors == extracted.v[2]
            detailed_message ==
                IF field_errors # <<>>
                THEN main_message \o <<":\n">> \o
                     Join(<<"\n">>,
                          [k \in 1..Len(field_errors) |->
                              <<"  - ">> \o field_errors[k]])
                ELSE main_message
            suggestions ==
                << <<"Review the parameter values in your request">>,
                   <<"Check GitHub API documentation for required fields and formats">> >>
                \o (IF AnyMentions(field_errors, "title")
                    THEN << <<"PR title must be non-empty and not exceed 256 characters">> >>
                    ELSE <<>>)
                \o (IF AnyMentions(field_errors, "body")
                    THEN << <<"PR body must not exceed 65536 characters">> >>
                    ELSE <<>>)
                \o (IF AnyMentions(field_errors, "head")
                    THEN << <<"Ensure the head branch exists and has been pushed to remote">> >>
                    ELSE <<>>)
                \o (IF AnyMentions(field_errors, "base")
                    THEN << <<"Ensure the base branch exists in the repository">> >>
                    ELSE <<>>)
        IN  Ok(GitHubAPIError("VALIDATION_FAILED", detailed_message,
                [status |-> 422, field_errors |-> field_errors,
                 raw_data |-> data],
                suggestions))

Generic(error) ==
    GitHubAPIError("GITHUB_API_ERROR", error.str,
        [original_error |-> error.type], <<>>)

\* Faulty variant: the 403 check is made before the 404 check.
handle_github_error_403First(error) ==
    IF Matches(error, 403) THEN Ok(Forbidden(error))
    ELSE IF Matches(error, 404) THEN Ok(NotFound(error))
    ELSE IF Matches(error, 401) THEN Ok(Unauthorized(error))
    ELSE IF Matches(error, 422) THEN ValidationFailed(error)
    ELSE Ok(Generic(error))

\* handle_github_error(error): the GitHubAPIError it returns, or the
\* exception that escapes it.
handle_github_error(error) ==
    IF Matches(error, 404) THEN Ok(NotFound(error))
    ELSE IF Matches(error, 403) THEN Ok(Forbidden(error))
    ELSE IF Matches(error, 401) THEN Ok(Unauthorized(error))
    ELSE IF Matches(error, 422) THEN ValidationFailed(error)
    ELSE Ok(Generic(error))

\* ------------------------------------------------- utils/github_client.py

\* get_github_client() is not atomic: a thread tests `_github_instance is
\* None`, later assigns the client it constructed, later verifies it with
\* get_user().  The three steps are the actions ClientCheck, ClientAssign
\* and ClientVerify below; these are the exceptions the function raises.
TokenMissing ==
    ValueError(<<"GITHUB_TOKEN environment variable not set. ",
                 "Please create .env file with GITHUB_TOKEN=ghp_...">>)

AuthenticationFailed(e) ==
    Exc("Exception", <<>>, NoData,
        <<"GitHub authentication failed: ">> \o e.str
        \o <<". Check GITHUB_TOKEN is valid.">>)

\* ------------------------------------------------- per-item operations

\* A per-item operation makes its calls one after another and stops at the
\* first that raises.  Its `plan` is the sequence of steps it would make if
\* none raised; `fault` is what the remote service does to this run:
\* fault.at = 0 lets every call return, fault.at = k makes the k-th step
\* raise fault.e.  Two steps are local rather than remote: "require_title"
\* (always raises) and "extract_item_id" (raises KeyError when the GraphQL
\* answer carries no item).
RemoteCalls == {"get_repo", "get_issue", "get_milestone", "create_issue",
                "edit_title", "edit_body", "edit_state", "edit_labels",
                "edit_milestone", "edit_assignees", "add_to_labels", "graphql"}

StepRaises(plan, fault, k) ==
    plan[k] = "require_title" \/ fault.at = k

StepExc(plan, fault, k) ==
    IF plan[k] = "require_title" THEN ValueError(<<"title is required">>)
    ELSE IF plan[k] = "extract_item_id" THEN KeyError(<<"'data'">>)
    ELSE fault.e

\* Position of the first step that raises, 0 when the plan runs through.
FirstRaise(plan, fault) ==
    IF \E k \in 1..Len(plan) : StepRaises(plan, fault, k)
    THEN CHOOSE k \in 1..Len(plan) :
            /\ StepRaises(plan, fault, k)
            /\ \A j \in 1..(k - 1) : ~StepRaises(plan, fault, j)
    ELSE 0

\* The steps actually made: everything up to and including the raising one.
StepsMade(plan, fault) ==
    IF FirstRaise(plan, fault) = 0 THEN plan
    ELSE SubSeq(plan, 1, FirstRaise(plan, fault))

IssueUrl(n) == <<"https://github.com/owner/repo/issues/">> \o StrInt(n)

BatchOperationResult(index, success, data, error) ==
    [index |-> index, success |-> success, data |-> data, error |-> error]

\* Faulty variant: to_dict emits both payload keys (dataclasses.asdict).
BatchOperationResult_to_dict_Both(self) ==
    [index |-> self.index, success |-> self.success, data |-> self.data,
     error |-> self.error]

BatchOperationResult_to_dict(self) ==
    IF self.success
    THEN [index |-> self.index, success |-> self.success, data |-> self.data]
    ELSE [index |-> self.index, success |-> self.success, error |-> self.error]

\* The `except Exception as e` arm shared by the three operations of
\* batch_operations.py: normalize, then build the failure result.  An
\* exception raised by the normalizer itself leaves the operation.
ExceptArm(index, e) ==
    LET error_info == handle_github_error(e)
    IN  IF error_info.raised THEN error_info
        ELSE Ok(BatchOperationResult(index, FALSE, NoneVal,
                                     GitHubAPIError_to_dict(error_info.v)))

\* The operation's outcome for a given plan and success value.
RunOperation(index, gh, plan, fault, onSuccess) ==
    IF gh.raised THEN
        [ret |-> ExceptArm(index, gh.e), steps |-> <<>>]
    ELSE IF FirstRaise(plan, fault) # 0 THEN
        [ret |-> ExceptArm(index, StepExc(plan, fault, FirstRaise(plan, fault))),
         steps |-> StepsMade(plan, fault)]
    ELSE [ret |-> Ok(onSuccess), steps |-> plan]

\* updates["milestone"] is <<>> for None and <<n>> for milestone number n.
UpdatePlan(updates) ==
    <<"get_repo", "get_issue">>
    \o (IF "title" \in DOMAIN updates THEN <<"edit_title">> ELSE <<>>)
    \o (IF "body" \in DOMAIN updates THEN <<"edit_body">> ELSE <<>>)
    \o (IF "state" \in DOMAIN updates THEN <<"edit_state">> ELSE <<>>)
    \o (IF "labels" \in DOMAIN updates THEN <<"edit_labels">> ELSE <<>>)
    \o (IF "milestone" \in DOMAIN updates
        THEN IF updates.milestone = <<>> THEN <<"edit_milestone">>
             ELSE <<"get_milestone", "edit_milestone">>
        ELSE <<>>)
    \o (IF "assignees" \in DOMAIN updates THEN <<"edit_assignees">> ELSE <<>>)

\* Faulty variant: the update's data carries no url.
_update_single_issue_NoUrl(index, issue_number, updates, gh, fault) ==
    RunOperation(index, gh, UpdatePlan(updates), fault,
        BatchOperationResult(index, TRUE,
            [issue_number |-> issue_number,
             updated_fields |-> DOMAIN updates],
            NoneVal))

_update_single_issue(index, issue_number, updates, gh, fault) ==
    RunOperation(index, gh, UpdatePlan(updates), fault,
        BatchOperationResult(index, TRUE,
            [issue_number |-> issue_number,
             url |-> IssueUrl(issue_number),
             updated_fields |-> DOMAIN updates],
            NoneVal))

\* issue.labels is what get_issue fetched: add_to_labels does not refresh it.
LabelsBefore(issue_number) == <<>>

_add_labels_to_issue(index, issue_number, labels, gh, fault) ==
    RunOperation(index, gh, <<"get_repo", "get_issue", "add_to_labels">>, fault,
        BatchOperationResult(index, TRUE,
            [issue_number |-> issue_number,
             added_labels |-> labels,
             all_labels |-> LabelsBefore(issue_number)],
            NoneVal))

_link_issue_to_project(index, issue_number, project_id, gh, fault) ==
    RunOperation(index, gh,
        <<"get_repo", "get_issue", "graphql", "extract_item_id">>, fault,
        BatchOperationResult(index, TRUE,
            [issue_number |-> issue_number,
             project_id |-> project_id,
             item_id |-> <<"PVTI_">> \o StrInt(issue_number)],
            NoneVal))

\* `not title`: the key is missing (get gives None) or the title is "".
HasTitle(issue_data) ==
    "title" \in DOMAIN issue_data /\ issue_data.title # <<>>

\* Faulty variant: the title is not checked before the issue is created.
CreatePlan_NoTitleCheck(issue_data) ==
    <<"get_repo">>
    \o (IF "milestone" \in DOMAIN issue_data /\ issue_data.milestone # 0
        THEN <<"get_milestone">> ELSE <<>>)
    \o <<"create_issue">>

\* issue_data["milestone"] is a positive milestone number when present.
CreatePlan(issue_data) ==
    <<"get_repo">>
    \o (IF ~HasTitle(issue_data) THEN <<"require_title">>
        ELSE (IF "milestone" \in DOMAIN issue_data /\ issue_data.milestone # 0
              THEN <<"get_milestone">> ELSE <<>>)
             \o <<"create_issue">>)

\* The number the service gives the issue created for item `index`.
NewIssueNumber(index) == 101 + index

\* _create_single_issue builds its result dicts directly.
_create_single_issue(index, issue_data, gh, fault) ==
    LET run == RunOperation(index, gh, CreatePlan(issue_data), fault,
                   [index |-> index, success |-> TRUE,
                    data |-> [issue_number |-> NewIssueNumber(index),
                              url |-> IssueUrl(NewIssueNumber(index)),
                              state |-> "open",
                              title |-> Get(issue_data, "title", <<>>),
                              labels |-> Get(issue_data, "labels", <<>>),
                              milestone |->
                                  IF "milestone" \in DOMAIN issue_data
                                     /\ issue_data.milestone # 0
                                  THEN <<"milestone title">> ELSE <<>>]])
    IN  IF run.ret.raised \/ run.ret.v.success THEN run
        ELSE [run EXCEPT !.ret =
                Ok([index |-> index, success |-> FALSE,
                    error |-> run.ret.v.error])]

\* ------------------------------------------------- the batch tools

Tools == {"create_issues", "batch_update_issues", "batch_add_labels",
          "batch_link_to_project"}

\* Faulty variant: the pool is sized with the default instead of the clamped value.
ClampWorkers_Default(max_workers) == 5

\* Faulty variant: only the lower end is clamped.
ClampWorkers_NoUpper(max_workers) ==
    IF max_workers < 1 THEN 1 ELSE max_workers

\* `max_workers = min(max(1, max_workers), 10)`, the same line in the four
\* tools.
ClampWorkers(max_workers) ==
    LET lower == IF max_workers < 1 THEN 1 ELSE max_workers
    IN  IF lower > 10 THEN 10 ELSE lower

\* The smallest member of a set of indices, -1 when it is empty: the index
\* at which a `for i, item in enumerate(items)` loop raises.
FirstOf(bad) ==
    IF bad = {} THEN -1
    ELSE CHOOSE i \in bad : \A j \in bad : i <= j

\* Faulty variant: create_issues without its upper size check.
create_issues_validate_NoMax(issues) ==
    IF Len(issues) = 0
    THEN Raise(ValueError(<<"issues list ", "cannot be empty">>))
    ELSE Ok(TRUE)

\* Faulty variant: batch_add_labels without its empty-labels check.
batch_add_labels_validate_NoEmpty(operations) ==
    LET i == FirstOf({j \in 0..(Len(operations) - 1) :
                        \/ "issue_number" \notin DOMAIN operations[j + 1]
                        \/ "labels" \notin DOMAIN operations[j + 1]})
    IN  IF Len(operations) = 0
            THEN Raise(ValueError(<<"operations list ", "cannot be empty">>))
        ELSE IF Len(operations) > 50
            THEN Raise(ValueError(<<"Maximum ", "5", "0",
                    " operations per batch (rate limiting protection)">>))
        ELSE IF i # -1
            THEN Raise(ValueError(<<"Operation at index ">> \o StrInt(i)
                    \o <<" missing required '", "issue_number", "' field">>))
        ELSE Ok(TRUE)

\* The pre-flight checks of each tool: Ok(TRUE), or the ValueError raised.
create_issues_validate(issues) ==
    IF Len(issues) = 0 THEN Raise(ValueError(<<"issues list ", "cannot be empty">>))
    ELSE IF Len(issues) > 50
        THEN Raise(ValueError(<<"Maximum ", "5", "0", " issues per batch">>))
    ELSE Ok(TRUE)

batch_update_issues_validate(updates) ==
    LET i == FirstOf({j \in 0..(Len(updates) - 1) :
                        "issue_number" \notin DOMAIN updates[j + 1]})
    IN  IF Len(updates) = 0
            THEN Raise(ValueError(<<"updates list ", "cannot be empty">>))
        ELSE IF Len(updates) > 50
            THEN Raise(ValueError(<<"Maximum ", "5", "0",
                    " updates per batch (rate limiting protection)">>))
        ELSE IF i # -1
            THEN Raise(ValueError(<<"Update at index ">> \o StrInt(i)
                    \o <<" missing required '", "issue_number", "' field">>))
        ELSE Ok(TRUE)

batch_add_labels_validate(operations) ==
    LET Bad(op) == \/ "issue_number" \notin DOMAIN op
                   \/ "labels" \notin DOMAIN op
                   \/ op.labels = <<>>
        i == FirstOf({j \in 0..(Len(operations) - 1) : Bad(operations[j + 1])})
    IN  IF Len(operations) = 0
            THEN Raise(ValueError(<<"operations list ", "cannot be empty">>))
        ELSE IF Len(operations) > 50
            THEN Raise(ValueError(<<"Maximum ", "5", "0",
                    " operations per batch (rate limiting protection)">>))
        ELSE IF i # -1 THEN
            LET op == operations[i + 1]
            IN  IF "issue_number" \notin DOMAIN op
                    THEN Raise(ValueError(<<"Operation at index ">> \o StrInt(i)
                        \o <<" missing required '", "issue_number", "' field">>))
                ELSE IF "labels" \notin DOMAIN op
                    THEN Raise(ValueError(<<"Operation at index ">> \o StrInt(i)
                        \o <<" missing required '", "labels", "' field">>))
                ELSE Raise(ValueError(<<"Operation at index ">> \o StrInt(i)
                        \o <<" has empty '", "labels", "' list">>))
        ELSE Ok(TRUE)

\* project_id is a str; it starts with "PVT_" iff its first atom is "PVT_".
batch_link_to_project_validate(issue_numbers, project_id) ==
    IF Len(issue_numbers) = 0
        THEN Raise(ValueError(<<"issue_numbers list ", "cannot be empty">>))
    ELSE IF Len(issue_numbers) > 50
        THEN Raise(ValueError(<<"Maximum ", "5", "0",
                " issues per batch (rate limiting protection)">>))
    ELSE IF project_id = <<>> \/ project_id[1] # "PVT_"
        THEN Raise(ValueError(
            <<"project_id must be a valid GitHub Project node ID (starts with 'PVT_')">>))
    ELSE Ok(TRUE)

Validate(t, batch, project) ==
    CASE t = "create_issues" -> create_issues_validate(batch)
      [] t = "batch_update_issues" -> batch_update_issues_validate(batch)
      [] t = "batch_add_labels" -> batch_add_labels_validate(batch)
      [] t = "batch_link_to_project" ->
            batch_link_to_project_validate(batch, project)

\* The update dict handed to _update_single_issue: the item without its
\* issue_number.
WithoutNumber(update) ==
    [k \in DOMAIN update \ {"issue_number"} |-> update[k]]

\* The per-item operation a tool submits for the item at 0-based `index`.
Operation(t, batch, project, index, gh, fault) ==
    LET item == batch[index + 1]
    IN  CASE t = "create_issues" ->
                _create_single_issue(index, item, gh, fault)
          [] t = "batch_update_issues" ->
                LET run == _update_single_issue(index, item.issue_number,
                                                WithoutNumber(item), gh, fault)
                IN  run
          [] t = "batch_add_labels" ->
                _add_labels_to_issue(index, item.issue_number, item.labels,
                                     gh, fault)
          [] t = "batch_link_to_project" ->
                _link_issue_to_project(index, item, project, gh, fault)

\* The number of steps of the operation's plan, which bounds fault.at.
PlanLen(t, item) ==
    CASE t = "create_issues" -> Len(CreatePlan(item))
      [] t = "batch_update_issues" -> Len(UpdatePlan(WithoutNumber(item)))
      [] t = "batch_add_labels" -> 3
      [] t = "batch_link_to_project" -> 4

\* Faulty variant: the results are returned in the order they were collected.
SortByIndex_Unsorted(rs) == rs

\* results.sort(key=lambda r: r.index): a stable sort.  The result at
\* sorted position i is the one that has i - 1 results before it: those of
\* smaller index, and those of equal index that were collected earlier.
SortByIndex(rs) ==
    LET Rank(p) == 1 + Cardinality({q \in 1..Len(rs) :
                          \/ rs[q].index < rs[p].index
                          \/ rs[q].index = rs[p].index /\ q < p})
    IN  [i \in 1..Len(rs) |-> rs[CHOOSE p \in 1..Len(rs) : Rank(p) = i]]

\* Faulty variant: every collected result is counted as a success.
CountSuccess_All(rs) == Len(rs)

\* sum(1 for r in results if r.success) and its complement.
CountSuccess(rs) == Cardinality({k \in 1..Len(rs) : rs[k].success})

CountFailure(rs) == Cardinality({k \in 1..Len(rs) : ~rs[k].success})

\* f"{(successful / total * 100):.1f}%": the percentage rounded to one
\* decimal, ties to even.
SuccessRate(successful, total) ==
    LET q == (1000 * successful) \div total
        r == (1000 * successful) % total
        tenths == IF 2 * r > total THEN q + 1
                  ELSE IF 2 * r = total THEN q + (q % 2)
                  ELSE q
    IN  StrInt(tenths \div 10) \o <<".">> \o StrInt(tenths % 10) \o <<"%">>

\* BatchResponse(...).to_dict(); execution_time_seconds is wall-clock time
\* and is left out.
BatchResponse_to_dict(total, successful, failed, results) ==
    [total |-> total, successful |-> successful, failed |-> failed,
     success_rate |-> IF total > 0 THEN SuccessRate(successful, total)
                      ELSE <<"0", "%">>,
     results |-> [k \in 1..Len(results) |->
                    BatchOperationResult_to_dict(results[k])]]

\* The summary of the three tools of batch_operations.py, from the results
\* in the order they were collected.
BatchSummary(n, collected) ==
    LET results == SortByIndex(collected)
    IN  BatchResponse_to_dict(n, CountSuccess(results), CountFailure(results),
                              results)

\* The summary create_issues returns.
CreateSummary(n, collected) ==
    LET results == SortByIndex(collected)
        successful == CountSuccess(results)
    IN  [total |-> n, successful |-> successful,
         failed |-> Len(results) - successful,
         success_rate |-> SuccessRate(successful, n),
         results |-> results]

Summary(t, n, collected) ==
    IF t = "create_issues" THEN CreateSummary(n, collected)
    ELSE BatchSummary(n, collected)

\* ---------------------------------------------------------------- inputs

\* What the remote service can raise in a per-item operation.
E404 == GithubException(404, [kind |-> "dict", d |-> [message |-> <<"Not Found">>]],
                        <<"{\"message\": \"Not Found\"}">>)

E401 == GithubException(401, [kind |-> "dict", d |-> [message |-> <<"Bad credentials">>]],
                        <<"{\"message\": \"Bad credentials\"}">>)

\* A 422 whose payload carries "errors": null.
E422Malformed ==
    GithubException(422,
        [kind |-> "dict", d |-> [message |-> <<"Validation Failed">>,
                                 errors |-> [kind |-> "None"]]],
        <<"{\"message\": \"Validation Failed\", \"errors\": null}">>)

RemoteExcs == {E404, E422Malformed}

NoFault == [at |-> 0, e |-> E404]

Faults(n) == {NoFault} \cup {[at |-> k, e |-> e] : k \in 1..n, e \in RemoteExcs}

\* What get_user() / user.login does when the client is verified.
UserOutcomes == {Ok("login"), Raise(E401)}

CreateItems ==
    { [title |-> <<"T">>, milestone |-> 7],
      [body |-> <<"No title">>] }

\* An issue whose title is the empty string.
EmptyTitle == [title |-> <<>>, body |-> <<"Empty title">>]

UpdateItems ==
    { [issue_number |-> 1, title |-> <<"New Title">>, labels |-> <<"bug">>],
      [title |-> <<"No issue number">>] }

LabelItems ==
    { [issue_number |-> 1, labels |-> <<"bug">>],
      [labels |-> <<"bug">>],
      [issue_number |-> 1],
      [issue_number |-> 2, labels |-> <<>>] }

LinkItems == {1}

ProjectIds == { <<"PVT_", "kwDOABcD">>, <<"invalid">>, <<>> }

ItemsOf(t) ==
    CASE t = "create_issues" -> CreateItems
      [] t = "batch_update_issues" -> UpdateItems
      [] t = "batch_add_labels" -> LabelItems
      [] t = "batch_link_to_project" -> LinkItems

\* An item of each tool that passes the per-item pre-flight checks.
ValidItem(t) ==
    CASE t = "create_issues" -> [title |-> <<"T">>]
      [] t = "batch_update_issues" -> [issue_number |-> 1, title |-> <<"New Title">>]
      [] t = "batch_add_labels" -> [issue_number |-> 1, labels |-> <<"bug">>]
      [] t = "batch_link_to_project" -> 1

SeqsUpTo(S, n) == UNION {[1..m -> S] : m \in 0..n}

\* The batches a call may carry: every list of at most MaxItems items,
\* lists of exactly 50 and 51 valid items and, for create_issues, an
\* empty-titled issue alone and after a titled one.
Batches(t) ==
    SeqsUpTo(ItemsOf(t), MaxItems)
    \cup {[k \in 1..50 |-> ValidItem(t)], [k \in 1..51 |-> ValidItem(t)]}
    \cup (IF t = "create_issues"
          THEN {<<EmptyTitle>>, <<[title |-> <<"T">>], EmptyTitle>>}
          ELSE {})

ProjectsOf(t) == IF t = "batch_link_to_project" THEN ProjectIds ELSE {<<>>}

\* The max_workers arguments tried with the short batches; a long batch is
\* called with the default, 5.
MaxWorkersInputs == {-1, 0, 2, 11}

WorkersFor(batch) == IF Len(batch) > MaxItems THEN {5} ELSE MaxWorkersInputs

\* ----------------------------------------------------------------- state

VARIABLES
    token,            \* whether GITHUB_TOKEN is set in the environment
    github_instance,  \* _github_instance: "None" or "Github"
    pc,               \* where the thread serving the tool call is
    tool, items, project_id, max_workers,   \* the call's arguments
    workers,          \* max_workers after clamping (0 before)
    fut,              \* per item: "new", "queued", "running", "done"
    opPc,             \* per item: where its operation is
    outcome,          \* per item: <<>> or <<what its operation returned/raised>>
    work_queue,       \* the executor's queue of submitted, unstarted items
    nThreads,         \* live worker threads of the call's executor
    collect_order,    \* item indices in the order as_completed yielded them
    results,          \* the `results` list
    raisedExc,        \* <<>> or <<the exception leaving the call>>
    response,         \* <<>> or <<the returned summary>>
    started,          \* per item: how many times its operation was started
    steps,            \* per item: the steps its operation made
    clientCalls,      \* get_github_client() calls made during the call
    norm,             \* a handle_github_error call: its argument and result
    single,           \* a single-resource tool call in progress
    client,           \* get_github_client() callers, examined on their own
    remote            \* the remote service: issue #1 and pull request #1

vars == <<token, github_instance, pc, tool, items, project_id, max_workers,
          workers, fut, opPc, outcome, work_queue, nThreads, collect_order,
          results, raisedExc, response, started, steps, clientCalls,
          norm, single, client, remote>>

N == Len(items)

Running == {k \in 1..N : fut[k] = "running"}

LongBatch == N > MaxItems

Ended == pc \in {"returned", "raised", "rejected"}

\* No handle_github_error call and no single-resource tool call is under way.
NormIdle == [error |-> Exc("None", <<>>, NoData, <<>>), result |-> <<>>]

SingleIdle == [pc |-> "idle"]

\* No get_github_client() caller is being examined.
ClientIdle == [pc |-> "idle"]

\* Issue #1 and pull request #1 as the remote service holds them when a
\* call begins.
InitialIssue ==
    [title |-> <<"Old Title">>, state |-> "open", labels |-> <<>>,
     comments |-> 0]

InitialPull ==
    [state |-> "open", merged |-> FALSE, mergeable |-> "True",
     mergeable_state |-> "clean", merged_at |-> <<>>,
     merge_commit_sha |-> <<>>, branch |-> TRUE]

RemoteAtCall == [issue |-> InitialIssue, pull |-> InitialPull]

\* issue.edit(<field>=updates[<field>]) for one field of issue #1.
EditField(issue, step, updates) ==
    CASE step = "edit_title" -> [issue EXCEPT !.title = updates.title]
      [] step = "edit_state" -> [issue EXCEPT !.state = updates.state]
      [] step = "edit_labels" -> [issue EXCEPT !.labels = updates.labels]
      [] OTHER -> issue

RECURSIVE EditFields(_, _, _)
EditFields(issue, made, updates) ==
    IF made = <<>> THEN issue
    ELSE EditFields(EditField(issue, Head(made), updates), Tail(made), updates)

\* The steps of a run that returned: all of them, or all but the last
\* when the run ended in the except arm.
Applied(run) ==
    IF run.ret.raised \/ ~run.ret.v.success
    THEN (IF run.steps = <<>> THEN <<>>
          ELSE SubSeq(run.steps, 1, Len(run.steps) - 1))
    ELSE run.steps

\* The remote service after a run of _update_single_issue on issue #1.
RemoteAfter(service, t, item, run) ==
    IF t = "batch_update_issues" /\ item.issue_number = 1
    THEN [service EXCEPT !.issue =
            EditFields(@, Applied(run), WithoutNumber(item))]
    ELSE service

Init ==
    /\ token \in BOOLEAN
    /\ github_instance = "None"
    /\ pc = "idle"
    /\ tool = "create_issues"
    /\ items = <<>>
    /\ project_id = <<>>
    /\ max_workers = 5
    /\ workers = 0
    /\ fut = <<>>
    /\ opPc = <<>>
    /\ outcome = <<>>
    /\ work_queue = <<>>
    /\ nThreads = 0
    /\ collect_order = <<>>
    /\ results = <<>>
    /\ raisedExc = <<>>
    /\ response = <<>>
    /\ started = <<>>
    /\ steps = <<>>
    /\ clientCalls = 0
    /\ norm = NormIdle
    /\ single = SingleIdle
    /\ client = ClientIdle
    /\ remote = RemoteAtCall

\* --------------------------------------------------------------- actions

\* A tool is called: the pre-flight checks, then the clamp.  create_issues
\* with one issue runs the operation on the calling thread ("sync"); every
\* other accepted call enters `with ThreadPoolExecutor(...)` ("submit").
Call(t, batch, project, mw) ==
    /\ pc = "idle"
    /\ tool' = t
    /\ items' = batch
    /\ project_id' = project
    /\ max_workers' = mw
    /\ fut' = [k \in 1..Len(batch) |-> "new"]
    /\ opPc' = [k \in 1..Len(batch) |-> "none"]
    /\ outcome' = [k \in 1..Len(batch) |-> <<>>]
    /\ started' = [k \in 1..Len(batch) |-> 0]
    /\ steps' = [k \in 1..Len(batch) |-> <<>>]
    /\ work_queue' = <<>>
    /\ nThreads' = 0
    /\ collect_order' = <<>>
    /\ results' = <<>>
    /\ response' = <<>>
    /\ clientCalls' = 0
    /\ IF Validate(t, batch, project).raised
       THEN /\ pc' = "rejected"
            /\ raisedExc' = <<Validate(t, batch, project).e>>
            /\ workers' = 0
       ELSE /\ pc' = IF t = "create_issues" /\ Len(batch) = 1
                     THEN "sync" ELSE "submit"
            /\ raisedExc' = <<>>
            /\ workers' = ClampWorkers(mw)
    /\ remote' = RemoteAtCall
    /\ UNCHANGED <<norm, single, client, token, github_instance>>

\* ThreadPoolExecutor._adjust_thread_count after a submit: the thread
\* counts the pool may have next.  A thread is added while there are fewer
\* than max_workers and no worker is known to be idle; whether an idle
\* worker is noticed depends on timing.
ThreadsAfterSubmit(n, w, idle) ==
    IF n < w THEN (IF idle > 0 THEN {n, n + 1} ELSE {n + 1}) ELSE {n}

\* executor.submit(...) for the next item of the dict comprehension.
Submit ==
    /\ pc = "submit"
    /\ LET k == CHOOSE j \in 1..N : fut[j] = "new" /\ \A i \in 1..(j - 1) : fut[i] # "new"
       IN  /\ fut' = [fut EXCEPT ![k] = "queued"]
           /\ work_queue' = Append(work_queue, k)
           /\ nThreads' \in
                IF LongBatch
                THEN {IF nThreads < workers THEN nThreads + 1 ELSE nThreads}
                ELSE ThreadsAfterSubmit(nThreads, workers,
                                        nThreads - Cardinality(Running))
           /\ pc' = IF k = N THEN "collect" ELSE "submit"
    /\ UNCHANGED <<norm, single, client, remote, token, github_instance, tool, items, project_id, max_workers,
                   workers, opPc, outcome, collect_order, results, raisedExc,
                   response, started, steps, clientCalls>>

\* An idle worker thread takes the oldest queued item and starts its
\* operation.
WorkerStart ==
    /\ work_queue # <<>>
    /\ nThreads > Cardinality(Running)
    /\ LongBatch => pc # "submit" /\ Running = {}
    /\ LET k == Head(work_queue)
       IN  /\ fut' = [fut EXCEPT ![k] = "running"]
           /\ opPc' = [opPc EXCEPT ![k] = "check"]
           /\ started' = [started EXCEPT ![k] = @ + 1]
    /\ work_queue' = Tail(work_queue)
    /\ UNCHANGED <<norm, single, client, remote, token, github_instance, pc, tool, items, project_id,
                   max_workers, workers, outcome, nThreads, collect_order,
                   results, raisedExc, response, steps, clientCalls>>

\* create_issues with one issue: the calling thread starts the operation.
SyncStart ==
    /\ pc = "sync"
    /\ fut[1] = "new"
    /\ fut' = [fut EXCEPT ![1] = "running"]
    /\ opPc' = [opPc EXCEPT ![1] = "check"]
    /\ started' = [started EXCEPT ![1] = @ + 1]
    /\ UNCHANGED <<norm, single, client, remote, token, github_instance, pc, tool, items, project_id,
                   max_workers, workers, outcome, work_queue, nThreads,
                   collect_order, results, raisedExc, response, steps,
                   clientCalls>>

\* The operation of item k ends with `ret` after making `made`.
Finish(k, run) ==
    /\ fut' = [fut EXCEPT ![k] = "done"]
    /\ opPc' = [opPc EXCEPT ![k] = "done"]
    /\ outcome' = [outcome EXCEPT ![k] = <<run.ret>>]
    /\ steps' = [steps EXCEPT ![k] = run.steps]

\* get_github_client(), first step: `if _github_instance is None`, and the
\* token test when it is.
ClientCheck(k) ==
    /\ fut[k] = "running"
    /\ opPc[k] = "check"
    /\ clientCalls' = clientCalls + 1
    /\ IF github_instance # "None"
       THEN /\ opPc' = [opPc EXCEPT ![k] = "ops"]
            /\ UNCHANGED <<fut, outcome, steps>>
       ELSE IF ~token
       THEN Finish(k, Operation(tool, items, project_id, k - 1,
                                Raise(TokenMissing), NoFault))
       ELSE /\ opPc' = [opPc EXCEPT ![k] = "assign"]
            /\ UNCHANGED <<fut, outcome, steps>>
    /\ UNCHANGED <<norm, single, client, remote, token, github_instance, pc, tool, items, project_id,
                   max_workers, workers, work_queue, nThreads, collect_order,
                   results, raisedExc, response, started>>

\* get_github_client(), second step: `_github_instance = Github(auth=auth)`.
ClientAssign(k) ==
    /\ fut[k] = "running"
    /\ opPc[k] = "assign"
    /\ github_instance' = "Github"
    /\ opPc' = [opPc EXCEPT ![k] = "verify"]
    /\ UNCHANGED <<norm, single, client, remote, token, pc, tool, items, project_id, max_workers, workers,
                   fut, outcome, work_queue, nThreads, collect_order, results,
                   raisedExc, response, started, steps, clientCalls>>

\* get_github_client(), third step: get_user() and user.login; a failure
\* is re-raised as "GitHub authentication failed".
ClientVerify(k, user) ==
    /\ fut[k] = "running"
    /\ opPc[k] = "verify"
    /\ LongBatch => ~user.raised
    /\ IF user.raised
       THEN Finish(k, Operation(tool, items, project_id, k - 1,
                                Raise(AuthenticationFailed(user.e)), NoFault))
       ELSE /\ opPc' = [opPc EXCEPT ![k] = "ops"]
            /\ UNCHANGED <<fut, outcome, steps>>
    /\ UNCHANGED <<norm, single, client, remote, token, github_instance, pc, tool, items, project_id,
                   max_workers, workers, work_queue, nThreads, collect_order,
                   results, raisedExc, response, started, clientCalls>>

\* The rest of the operation: its remote calls, up to the first that
\* raises, and the result it builds.
OpRun(k, fault) ==
    /\ fut[k] = "running"
    /\ opPc[k] = "ops"
    /\ LongBatch => fault = NoFault
    /\ Finish(k, Operation(tool, items, project_id, k - 1, Ok("Github"), fault))
    /\ remote' = RemoteAfter(remote, tool, items[k],
                    Operation(tool, items, project_id, k - 1, Ok("Github"), fault))
    /\ UNCHANGED <<norm, single, client, token, github_instance, pc, tool, items, project_id,
                   max_workers, workers, work_queue, nThreads, collect_order,
                   results, raisedExc, response, started, clientCalls>>

\* `for future in as_completed(...)`: the next finished future is taken and
\* future.result() appended, or the exception it holds is raised, which
\* leaves the `with` block.
Collect(k) ==
    /\ pc = "collect"
    /\ fut[k] = "done"
    /\ \A j \in 1..Len(collect_order) : collect_order[j] # k - 1
    /\ LongBatch => /\ \A j \in 1..N : fut[j] = "done"
                    /\ Len(collect_order) = k - 1
    /\ IF outcome[k][1].raised
       THEN /\ raisedExc' = <<outcome[k][1].e>>
            /\ pc' = "shutdown"
            /\ UNCHANGED <<results, collect_order>>
       ELSE /\ results' = Append(results, outcome[k][1].v)
            /\ collect_order' = Append(collect_order, k - 1)
            /\ pc' = IF Len(collect_order) + 1 = N THEN "shutdown" ELSE "collect"
            /\ UNCHANGED raisedExc
    /\ UNCHANGED <<norm, single, client, remote, token, github_instance, tool, items, project_id, max_workers,
                   workers, fut, opPc, outcome, work_queue, nThreads, response,
                   started, steps, clientCalls>>

\* Faulty variant: shutdown drops what is still queued (cancel_futures=True).
WorkerMayExit_Cancelling(shutdown, queue) == shutdown

\* Leaving the `with` block is executor.shutdown(wait=True): a worker
\* thread ends once the executor is shut down and the queue is empty.
WorkerMayExit(shutdown, queue) == shutdown /\ queue = <<>>

WorkerExit ==
    /\ WorkerMayExit(pc = "shutdown", work_queue)
    /\ nThreads > Cardinality(Running)
    /\ nThreads' = nThreads - 1
    /\ UNCHANGED <<norm, single, client, remote, token, github_instance, pc, tool, items, project_id,
                   max_workers, workers, fut, opPc, outcome, work_queue,
                   collect_order, results, raisedExc, response, started, steps,
                   clientCalls>>

\* Faulty variant: shutdown(wait=False).
ShutdownDone_NoWait(threads) == TRUE

\* shutdown(wait=True) returns when every worker thread has been joined.
ShutdownDone(threads) == threads = 0

\* The `with` block is left: a pending exception propagates out of the
\* tool; otherwise the results are sorted, counted and returned.
Return ==
    /\ pc = "shutdown"
    /\ ShutdownDone(nThreads)
    /\ IF raisedExc # <<>>
       THEN /\ pc' = "raised"
            /\ UNCHANGED <<results, response>>
       ELSE /\ pc' = "returned"
            /\ results' = SortByIndex(results)
            /\ response' = <<Summary(tool, N, results)>>
    /\ UNCHANGED <<norm, single, client, remote, token, github_instance, tool, items, project_id, max_workers,
                   workers, fut, opPc, outcome, work_queue, nThreads,
                   collect_order, raisedExc, started, steps, clientCalls>>

\* Faulty variant: the single issue's result is not kept.
SyncAppend_Drop(list, result) == list

\* `results.append(_create_single_issue(0, issues[0], owner, repo))`.
SyncAppend(list, result) == Append(list, result)

\* create_issues with one issue: the operation has ended on the calling
\* thread; what it raised propagates, what it returned is summarised.
SyncFinish ==
    /\ pc = "sync"
    /\ fut[1] = "done"
    /\ IF outcome[1][1].raised
       THEN /\ pc' = "raised"
            /\ raisedExc' = <<outcome[1][1].e>>
            /\ UNCHANGED <<results, response, collect_order>>
       ELSE /\ pc' = "returned"
            /\ results' = SortByIndex(SyncAppend(results, outcome[1][1].v))
            /\ collect_order' = <<0>>
            /\ response' =
                  <<Summary(tool, N, SyncAppend(results, outcome[1][1].v))>>
            /\ UNCHANGED raisedExc
    /\ UNCHANGED <<norm, single, client, remote, token, github_instance, tool, items, project_id, max_workers,
                   workers, fut, opPc, outcome, work_queue, nThreads, started,
                   steps, clientCalls>>

\* The call has ended and its frame is gone; the server waits for the next.
ToolDone ==
    /\ Ended
    /\ pc' = "idle"
    /\ tool' = "create_issues"
    /\ items' = <<>>
    /\ project_id' = <<>>
    /\ max_workers' = 5
    /\ workers' = 0
    /\ fut' = <<>>
    /\ opPc' = <<>>
    /\ outcome' = <<>>
    /\ work_queue' = <<>>
    /\ nThreads' = 0
    /\ collect_order' = <<>>
    /\ results' = <<>>
    /\ raisedExc' = <<>>
    /\ response' = <<>>
    /\ started' = <<>>
    /\ steps' = <<>>
    /\ clientCalls' = 0
    /\ UNCHANGED <<norm, single, client, remote, token, github_instance>>

\* reset_github_client(), between calls.
reset_github_client ==
    /\ pc = "idle"
    /\ github_instance # "None"
    /\ github_instance' = "None"
    /\ UNCHANGED <<norm, single, client, remote, token, pc, tool, items, project_id, max_workers, workers,
                   fut, opPc, outcome, work_queue, nThreads, collect_order,
                   results, raisedExc, response, started, steps, clientCalls>>

Next ==
    \/ \E t \in Tools : \E batch \in Batches(t) : \E project \in ProjectsOf(t) :
         \E mw \in WorkersFor(batch) : Call(t, batch, project, mw)
    \/ Submit
    \/ WorkerStart
    \/ SyncStart
    \/ \E k \in 1..N : ClientCheck(k)
    \/ \E k \in 1..N : ClientAssign(k)
    \/ \E k \in 1..N : \E user \in UserOutcomes : ClientVerify(k, user)
    \/ \E k \in 1..N : \E fault \in Faults(PlanLen(tool, items[k])) : OpRun(k, fault)
    \/ \E k \in 1..N : Collect(k)
    \/ WorkerExit
    \/ Return
    \/ SyncFinish
    \/ ToolDone
    \/ reset_github_client

Spec == Init /\ [][Next]_vars

\* The steps of the thread that serves the call: they are taken whenever
\* they stay possible.
Dispatching ==
    \/ Submit
    \/ SyncStart
    \/ \E k \in 1..N : Collect(k)
    \/ Return
    \/ SyncFinish

\* The steps of the threads that run the operations (the pool's workers,
\* or the calling thread on the one-issue path): a thread that can run
\* does, and every remote call returns or raises.
Working ==
    \/ WorkerStart
    \/ \E k \in 1..N : ClientCheck(k)
    \/ \E k \in 1..N : ClientAssign(k)
    \/ \E k \in 1..N : \E user \in UserOutcomes : ClientVerify(k, user)
    \/ \E k \in 1..N : \E fault \in Faults(PlanLen(tool, items[k])) :
         OpRun(k, fault)
    \/ WorkerExit

FairSpec == Spec /\ WF_vars(Dispatching) /\ WF_vars(Working)

\* ------------------------------------------- the normalizer on its own

\* The value of GITHUB_TOKEN, as an atom of text.
TokenValue == "ghp_secret_token"

\* The pieces exception texts are made of: each status code as its digits,
\* plain words, and the credential (requests' InvalidHeader quotes the
\* Authorization header value it rejects).
NormWords ==
    { <<"4", "0", "4">>, <<"4", "0", "3">>, <<"4", "0", "1">>,
      <<"4", "2", "2">>, <<"Not Found">>, <<TokenValue>> }

\* Texts of one to n words separated by blanks.
RECURSIVE TextsOf(_)
TextsOf(n) ==
    IF n = 1 THEN NormWords
    ELSE TextsOf(n - 1)
         \cup {t \o <<" ">> \o w : t \in TextsOf(n - 1), w \in NormWords}

NormTexts == TextsOf(MaxWords)

\* The `data` attribute of the exception, when it has one.
NormDatas ==
    { NoData,
      [kind |-> "dict", d |-> [message |-> <<"Validation Failed">>]],
      [kind |-> "dict",
       d |-> [message |-> <<"Validation Failed">>,
              errors |-> [kind |-> "list",
                          items |-> << [kind |-> "dict",
                                        d |-> [field |-> <<"Title">>,
                                               code |-> <<"missing_field">>]] >>]]],
      [kind |-> "dict", d |-> [message |-> <<"Validation Failed">>,
                               errors |-> [kind |-> "None"]]] }

\* Exceptions handed to handle_github_error: plain exceptions with any
\* text, and GithubExceptions, whose text starts with their status.
NormInputs ==
    {Exc("Exception", <<>>, NoData, text) : text \in NormTexts}
    \cup {GithubException(status, data, body) :
            status \in {404, 403, 401, 422, 500},
            data \in NormDatas, body \in NormTexts}

NormInit ==
    /\ norm \in {[error |-> e, result |-> <<>>] : e \in NormInputs}
    /\ single = SingleIdle
    /\ client = ClientIdle
    /\ remote = RemoteAtCall
    /\ token = TRUE
    /\ github_instance = "None"
    /\ pc = "idle"
    /\ tool = "create_issues"
    /\ items = <<>>
    /\ project_id = <<>>
    /\ max_workers = 5
    /\ workers = 0
    /\ fut = <<>>
    /\ opPc = <<>>
    /\ outcome = <<>>
    /\ work_queue = <<>>
    /\ nThreads = 0
    /\ collect_order = <<>>
    /\ results = <<>>
    /\ raisedExc = <<>>
    /\ response = <<>>
    /\ started = <<>>
    /\ steps = <<>>
    /\ clientCalls = 0

\* handle_github_error(norm.error) is evaluated.
Normalize ==
    /\ norm.result = <<>>
    /\ norm' = [norm EXCEPT !.result = <<handle_github_error(norm.error)>>]
    /\ UNCHANGED <<single, client, remote, token, github_instance, pc, tool,
                   items, project_id,
                   max_workers, workers, fut, opPc, outcome, work_queue,
                   nThreads, collect_order, results, raisedExc, response,
                   started, steps, clientCalls>>

NormNext == Normalize

NormSpec == NormInit /\ [][NormNext]_vars

\* ------------------------------------------- single-resource tools
\*
\* tools/issues.py (get_issue, list_issues, close_issue), tools/pulls.py,
\* tools/milestones.py and tools/ci.py.  Each tool is a `try` block that
\* makes its calls one after another, followed by its `except` clauses.
\* A step is a call that can raise, with what the code around it does
\* when it raises:
\*   "remote"              a remote call; the exception reaches the tool's
\*                         except clauses
\*   "remote_wrapped"      get_user() in get_github_client: re-raised as
\*                         Exception("GitHub authentication failed: ...")
\*   "remote_swallowed"    a remote call inside an inner try whose except
\*                         clause logs and carries on
\*   "remote_value_error"  a remote call inside an inner try whose except
\*                         clause raises ValueError(...) from e
\*   "local_value_error"   a local check that raises ValueError
\*   "local_exception"     a local check that raises Exception
\*   "local_raw"           a local failure turned into an Exception inside
\*                         an except clause of the tool's own try, which
\*                         the sibling except clauses do not see

Step(call, kind) == [call |-> call, kind |-> kind]

\* get_github_client() at first use, then gh.get_repo(...).
ClientSteps ==
    <<Step("os.getenv", "local_value_error"),
      Step("get_user", "remote_wrapped"),
      Step("get_repo", "remote")>>

\* The calls of each tool in program order (optional arguments given);
\* get_ci_logs has one program per way of naming the run.
SinglePrograms ==
    { [tool |-> "get_issue",
       steps |-> ClientSteps \o <<Step("get_issue", "remote")>>],
      [tool |-> "list_issues",
       steps |-> ClientSteps \o <<Step("get_milestones", "remote"),
                                   Step("get_issues", "remote")>>],
      [tool |-> "close_issue",
       steps |-> ClientSteps \o <<Step("get_issue", "remote"),
                                   Step("create_comment", "remote"),
                                   Step("edit", "remote")>>],
      [tool |-> "create_pr_with_content",
       steps |-> ClientSteps \o <<Step("git rev-parse", "local_raw"),
                                   Step("create_pull", "remote")>>],
      [tool |-> "get_pull_request",
       steps |-> ClientSteps \o <<Step("get_pull", "remote")>>],
      [tool |-> "update_pr",
       steps |-> <<Step("state", "local_value_error")>> \o ClientSteps
                 \o <<Step("get_pull", "remote"),
                      Step("pr.merged", "local_exception"),
                      Step("edit", "remote")>>],
      [tool |-> "merge_pr",
       steps |-> <<Step("merge_method", "local_value_error")>> \o ClientSteps
                 \o <<Step("get_pull", "remote"),
                      Step("pr.mergeable", "local_exception"),
                      Step("merge", "remote"),
                      Step("get_git_ref", "remote_swallowed"),
                      Step("ref.delete", "remote_swallowed")>>],
      [tool |-> "create_milestone",
       steps |-> ClientSteps \o <<Step("fromisoformat", "local_value_error"),
                                   Step("create_milestone", "remote")>>],
      [tool |-> "list_milestones",
       steps |-> ClientSteps \o <<Step("get_milestones", "remote")>>],
      [tool |-> "check_ci_status",
       steps |-> ClientSteps \o <<Step("get_workflow_runs", "remote"),
                                   Step("get_workflow", "remote_swallowed"),
                                   Step("jobs", "remote_swallowed")>>],
      [tool |-> "get_ci_logs",
       steps |-> <<Step("branch or run_id", "local_value_error")>>
                 \o ClientSteps
                 \o <<Step("get_workflow_run", "remote_value_error"),
                      Step("jobs", "remote"),
                      Step("os.getenv", "local_value_error"),
                      Step("requests.get", "remote_swallowed")>>],
      [tool |-> "get_ci_logs",
       steps |-> <<Step("branch or run_id", "local_value_error")>>
                 \o ClientSteps
                 \o <<Step("get_workflow_runs", "remote"),
                      Step("branch_runs", "local_value_error"),
                      Step("jobs", "remote"),
                      Step("os.getenv", "local_value_error"),
                      Step("requests.get", "remote_swallowed")>>] }

\* The tools whose try has an `except ValueError: raise` clause before its
\* `except Exception`.
ReraisesValueError(t) ==
    t \in {"create_pr_with_content", "update_pr", "merge_pr", "get_ci_logs"}

\* What a remote call of a single-resource tool can raise.
ConnectionError ==
    Exc("ConnectionError", <<>>, NoData, <<"Connection refused">>)

SingleExcs == {E404, E422Malformed, ConnectionError}

\* What the caller of a tool receives when the tool raises: the class of
\* the exception and, for a GitHubAPIError, its code.
Escaped(type, code) == [type |-> type, code |-> code]

\* The tool's except clauses, applied to the exception `e` its try block
\* raised: `except ValueError: raise` where the tool has it, otherwise
\* `raise handle_github_error(e)`.
ExceptClauses(t, e) ==
    IF e.type = "ValueError" /\ ReraisesValueError(t)
    THEN [normalized |-> 0, escaped |-> Escaped("ValueError", "")]
    ELSE LET r == handle_github_error(e)
         IN  IF r.raised
             THEN [normalized |-> 1, escaped |-> Escaped(r.e.type, "")]
             ELSE [normalized |-> 1,
                   escaped |-> Escaped("GitHubAPIError", r.v.code)]

\* What a failing step puts before the tool's except clauses.
Thrown(step, e) ==
    CASE step.kind = "remote" -> e
      [] step.kind = "remote_wrapped" -> AuthenticationFailed(e)
      [] step.kind = "remote_value_error" ->
            ValueError(<<"Workflow run not found">>)
      [] step.kind = "local_value_error" -> ValueError(<<step.call>>)
      [] OTHER -> Exc("Exception", <<>>, NoData, <<step.call>>)

IsRemote(step) ==
    step.kind \in {"remote", "remote_wrapped", "remote_swallowed",
                   "remote_value_error"}

SingleRest ==
    UNCHANGED <<norm, client, remote, token, github_instance, pc, tool, items,
                project_id,
                max_workers, workers, fut, opPc, outcome, work_queue,
                nThreads, collect_order, results, raisedExc, response,
                started, steps, clientCalls>>

SingleInit ==
    /\ single = SingleIdle
    /\ norm = NormIdle
    /\ client = ClientIdle
    /\ remote = RemoteAtCall
    /\ token = TRUE
    /\ github_instance = "None"
    /\ pc = "idle"
    /\ tool = "create_issues"
    /\ items = <<>>
    /\ project_id = <<>>
    /\ max_workers = 5
    /\ workers = 0
    /\ fut = <<>>
    /\ opPc = <<>>
    /\ outcome = <<>>
    /\ work_queue = <<>>
    /\ nThreads = 0
    /\ collect_order = <<>>
    /\ results = <<>>
    /\ raisedExc = <<>>
    /\ response = <<>>
    /\ started = <<>>
    /\ steps = <<>>
    /\ clientCalls = 0

\* A single-resource tool is called.  `failed` is the remote call of this
\* call that failed last (<<>> when none has), `swallowed` how many remote
\* failures an inner except clause has absorbed, `normalized` how many
\* times handle_github_error ran, `escaped` what the caller received.
SingleCall(prog) ==
    /\ single.pc = "idle"
    /\ single' = [pc |-> "running", tool |-> prog.tool, prog |-> prog.steps,
                  at |-> 1, exc |-> <<>>, failed |-> <<>>, swallowed |-> 0,
                  normalized |-> 0, escaped |-> <<>>]
    /\ SingleRest

\* The next call of the try block returns.
SingleStepOk ==
    /\ single.pc = "running"
    /\ single.at <= Len(single.prog)
    /\ single' = [single EXCEPT !.at = @ + 1]
    /\ SingleRest

\* The next call of the try block fails.
SingleStepFail(e) ==
    /\ single.pc = "running"
    /\ single.at <= Len(single.prog)
    /\ LET step == single.prog[single.at]
       IN  CASE step.kind = "remote_swallowed" ->
                  single' = [single EXCEPT !.at = @ + 1,
                                           !.swallowed = @ + 1]
             [] step.kind = "local_raw" ->
                  single' = [single EXCEPT
                                !.pc = "raised",
                                !.escaped = <<Escaped("Exception", "")>>]
             [] OTHER ->
                  single' = [single EXCEPT
                                !.pc = "except",
                                !.exc = <<Thrown(step, e)>>,
                                !.failed = IF IsRemote(step)
                                           THEN <<step.call>> ELSE <<>>]
    /\ SingleRest

\* The tool's except clauses handle what the try block raised.
SingleExcept ==
    /\ single.pc = "except"
    /\ LET h == ExceptClauses(single.tool, single.exc[1])
       IN  single' = [single EXCEPT !.pc = "raised",
                                    !.normalized = @ + h.normalized,
                                    !.escaped = <<h.escaped>>]
    /\ SingleRest

\* The try block reaches its return statement.
SingleReturn ==
    /\ single.pc = "running"
    /\ single.at > Len(single.prog)
    /\ single' = [single EXCEPT !.pc = "returned"]
    /\ SingleRest

\* The caller has received the result or the exception.
SingleDone ==
    /\ single.pc \in {"returned", "raised"}
    /\ single' = SingleIdle
    /\ SingleRest

SingleNext ==
    \/ \E prog \in SinglePrograms : SingleCall(prog)
    \/ SingleStepOk
    \/ \E e \in SingleExcs : SingleStepFail(e)
    \/ SingleExcept
    \/ SingleReturn
    \/ SingleDone

SingleSpec == SingleInit /\ [][SingleNext]_vars

\* ------------------------------------------------------- close_issue
\*
\* tools/issues.py, close_issue, step by step on issue #1.  `single` holds
\* the call: its arguments, the issue object get_issue returned (refreshed
\* by each edit), what the call returned or raised, and the state the
\* remote issue was in when the call began.  The idle record counts the
\* calls made so far.

MaxCalls == 2

CloseIdle(calls) == [pc |-> "idle", calls |-> calls]

StateReasons == {"None", "completed", "not_planned"}

\* Faulty variant: the edit is not issued.
IssueEdit_Skip(issue, state) == issue

\* issue.edit(state=...): the service stores the state, whatever it was,
\* and the issue object takes the attributes of the answer.
IssueEdit(issue, state) == [issue EXCEPT !.state = state]

\* The dict close_issue returns.
close_issue_result(issue, state_reason, comment_added) ==
    [number |-> 1, state |-> issue.state, state_reason |-> state_reason,
     comment_added |-> comment_added, url |-> IssueUrl(1)]

CloseRest ==
    UNCHANGED <<norm, client, token, github_instance, pc, tool, items,
                project_id, max_workers, workers, fut, opPc, outcome,
                work_queue, nThreads, collect_order, results, raisedExc,
                response, started, steps, clientCalls>>

CloseInit ==
    /\ single = CloseIdle(0)
    /\ remote \in {[RemoteAtCall EXCEPT !.issue.state = st] :
                     st \in {"open", "closed"}}
    /\ norm = NormIdle
    /\ client = ClientIdle
    /\ token = TRUE
    /\ github_instance = "Github"
    /\ pc = "idle"
    /\ tool = "create_issues"
    /\ items = <<>>
    /\ project_id = <<>>
    /\ max_workers = 5
    /\ workers = 0
    /\ fut = <<>>
    /\ opPc = <<>>
    /\ outcome = <<>>
    /\ work_queue = <<>>
    /\ nThreads = 0
    /\ collect_order = <<>>
    /\ results = <<>>
    /\ raisedExc = <<>>
    /\ response = <<>>
    /\ started = <<>>
    /\ steps = <<>>
    /\ clientCalls = 0

\* close_issue(1, comment, state_reason) is called.
CloseCall(comment, state_reason) ==
    /\ single.pc = "idle"
    /\ single.calls < MaxCalls
    /\ single' = [pc |-> "get_issue", calls |-> single.calls,
                  comment |-> comment, state_reason |-> state_reason,
                  before |-> remote.issue.state, issue |-> <<>>,
                  comment_added |-> FALSE, faults |-> 0,
                  returned |-> <<>>, raised |-> <<>>]
    /\ UNCHANGED remote
    /\ CloseRest

\* gh.get_repo(...) and repository.get_issue(issue_number) return.
CloseGetIssue ==
    /\ single.pc = "get_issue"
    /\ single' = [single EXCEPT !.issue = <<remote.issue>>,
                                !.pc = IF single.comment THEN "comment"
                                       ELSE "edit"]
    /\ UNCHANGED remote
    /\ CloseRest

\* `if comment: issue.create_comment(comment)`.
CloseComment ==
    /\ single.pc = "comment"
    /\ remote' = [remote EXCEPT !.issue.comments = @ + 1]
    /\ single' = [single EXCEPT !.comment_added = TRUE, !.pc = "edit"]
    /\ CloseRest

\* issue.edit(state="closed", state_reason=state_reason).
CloseEdit ==
    /\ single.pc = "edit"
    /\ remote' = [remote EXCEPT !.issue = IssueEdit(@, "closed")]
    /\ single' = [single EXCEPT
                     !.issue = <<IssueEdit(remote.issue, "closed")>>,
                     !.pc = "return"]
    /\ CloseRest

\* The return statement.
CloseReturn ==
    /\ single.pc = "return"
    /\ single' = [single EXCEPT
                     !.returned = <<close_issue_result(single.issue[1],
                                        single.state_reason,
                                        single.comment_added)>>,
                     !.pc = "returned"]
    /\ UNCHANGED remote
    /\ CloseRest

\* The remote call the tool is about to make raises: the except clause
\* raises what handle_github_error gives.
CloseFail(e) ==
    /\ single.pc \in {"get_issue", "comment", "edit"}
    /\ single' = [single EXCEPT
                     !.faults = 1,
                     !.raised = <<IF handle_github_error(e).raised
                                  THEN "TypeError" ELSE "GitHubAPIError">>,
                     !.pc = "raised"]
    /\ UNCHANGED remote
    /\ CloseRest

\* The caller has the result.
CloseDone ==
    /\ single.pc \in {"returned", "raised"}
    /\ single' = CloseIdle(single.calls + 1)
    /\ UNCHANGED remote
    /\ CloseRest

CloseNext ==
    \/ \E comment \in BOOLEAN : \E reason \in StateReasons :
         CloseCall(comment, reason)
    \/ CloseGetIssue
    \/ CloseComment
    \/ CloseEdit
    \/ CloseReturn
    \/ \E e \in SingleExcs : CloseFail(e)
    \/ CloseDone

CloseSpec == CloseInit /\ [][CloseNext]_vars

\* ---------------------------------------------------------- merge_pr
\*
\* tools/pulls.py, merge_pr, step by step on pull request #pr_number.
\* `remote.pull` is the pull request as the service holds it: mergeable is
\* "True", "False" or "None"; merged_at and merge_commit_sha are <<>> for
\* None; branch tells whether the head branch exists.

ValidMethods == {"merge", "squash", "rebase"}

\* Faulty variant: the method is not checked.
ValidMethod_Any(merge_method) == TRUE

\* `merge_method not in valid_methods`, negated.
ValidMethod(merge_method) == merge_method \in ValidMethods

InvalidMethod(merge_method) ==
    ValueError(<<"Invalid merge_method '", merge_method,
                 "'. Must be one of: merge, squash, rebase">>)

\* state_messages.get(pr.mergeable_state, <default>).
MergeableDetail(mergeable_state) ==
    CASE mergeable_state = "blocked" ->
            <<"Blocked by required checks, reviews, or branch protection">>
      [] mergeable_state = "dirty" ->
            <<"Merge conflicts must be resolved before merging">>
      [] mergeable_state = "behind" ->
            <<"Branch must be updated with base branch before merging">>
      [] OTHER ->
            <<"Pull request is not mergeable (state: ", mergeable_state, ")">>

\* Why the pre-merge checks refuse the fetched pull request: "closed",
\* "merged", "not_mergeable", or "none" when they let it through.
Refusal(pull) ==
    IF pull.state = "closed" /\ ~pull.merged THEN "closed"
    ELSE IF pull.merged THEN "merged"
    ELSE IF pull.mergeable = "False" THEN "not_mergeable"
    ELSE "none"

\* The Exception the pre-merge checks raise.
RefusalError(pr_number, pull) ==
    LET head == <<"Cannot merge PR #">> \o StrInt(pr_number) \o <<": ">>
    IN  Exc("Exception", <<>>, NoData,
          CASE Refusal(pull) = "closed" ->
                 head \o <<"Pull request is closed",
                           ". Only open pull requests can be merged.">>
            [] Refusal(pull) = "merged" ->
                 head \o <<"Pull request was already merged", " at ">>
                 \o (IF pull.merged_at # <<>> THEN pull.merged_at
                     ELSE <<"unknown time">>)
                 \o <<". Merge SHA: ">>
                 \o (IF pull.merge_commit_sha # <<>> THEN pull.merge_commit_sha
                     ELSE <<"unknown">>)
            [] OTHER ->
                 head \o MergeableDetail(pull.mergeable_state)
                 \o <<". Please resolve the issues before attempting to merge.">>)

\* What merge_pr's except clauses make of an exception of its try block:
\* the class and message of what the caller receives.
MergeExcept(e) ==
    IF e.type = "ValueError" THEN [type |-> "ValueError", message |-> e.str]
    ELSE LET r == handle_github_error(e)
         IN  IF r.raised THEN [type |-> r.e.type, message |-> r.e.str]
             ELSE [type |-> "GitHubAPIError", message |-> r.v.message]

\* The pull request once the service has merged it.
MergedAt == <<"2", "0", "2", "4", "-", "0", "1", "-", "0", "1", "T",
              "1", "0", ":", "0", "0", ":", "0", "0">>

MergeSha(n) == <<"a">> \o StrInt(n) \o <<"1", "b", "c">>

PullMerged(pull, n) ==
    [pull EXCEPT !.state = "closed", !.merged = TRUE,
                 !.merged_at = MergedAt, !.merge_commit_sha = MergeSha(n)]

\* The pull requests a call may find.
Pulls ==
    { [InitialPull EXCEPT !.mergeable = mg[1], !.mergeable_state = mg[2]] :
        mg \in { <<"True", "clean">>, <<"None", "unknown">>,
                 <<"False", "blocked">>, <<"False", "dirty">>,
                 <<"False", "behind">>, <<"False", "draft">> } }
    \cup { [InitialPull EXCEPT !.state = "closed", !.mergeable = "None",
                               !.mergeable_state = "dirty"] }
    \cup { [InitialPull EXCEPT !.state = "closed", !.merged = TRUE,
                               !.mergeable = "None",
                               !.merged_at = at, !.merge_commit_sha = sha] :
             at \in {<<>>, MergedAt}, sha \in {<<>>, MergeSha(403)} }

PrNumbers == {35, 403}

MergeMethods == ValidMethods \cup {"invalid_method"}

MergeIdle == [pc |-> "idle"]

MergeRest ==
    UNCHANGED <<norm, client, token, github_instance, pc, tool, items,
                project_id, max_workers, workers, fut, opPc, outcome,
                work_queue, nThreads, collect_order, results, raisedExc,
                response, started, steps, clientCalls>>

MergeInit ==
    /\ single = MergeIdle
    /\ remote \in {[RemoteAtCall EXCEPT !.pull = pull] : pull \in Pulls}
    /\ norm = NormIdle
    /\ client = ClientIdle
    /\ token = TRUE
    /\ github_instance = "Github"
    /\ pc = "idle"
    /\ tool = "create_issues"
    /\ items = <<>>
    /\ project_id = <<>>
    /\ max_workers = 5
    /\ workers = 0
    /\ fut = <<>>
    /\ opPc = <<>>
    /\ outcome = <<>>
    /\ work_queue = <<>>
    /\ nThreads = 0
    /\ collect_order = <<>>
    /\ results = <<>>
    /\ raisedExc = <<>>
    /\ response = <<>>
    /\ started = <<>>
    /\ steps = <<>>
    /\ clientCalls = 0

\* merge_pr(pr_number, merge_method, delete_branch=...) is called; the
\* method is checked first.  `merges` and `deletes` count the pr.merge and
\* ref.delete calls the tool makes.
MergeCall(pr_number, merge_method, delete_branch) ==
    /\ single.pc = "idle"
    /\ single' =
         [pc |-> IF ValidMethod(merge_method) THEN "get_pull" ELSE "except",
          pr_number |-> pr_number, merge_method |-> merge_method,
          delete_branch |-> delete_branch, fetched |-> <<>>,
          exc |-> IF ValidMethod(merge_method) THEN <<>>
                  ELSE <<InvalidMethod(merge_method)>>,
          merges |-> 0, deletes |-> 0, branch_deleted |-> FALSE,
          returned |-> FALSE, raised |-> <<>>]
    /\ UNCHANGED remote
    /\ MergeRest

\* get_github_client(), get_repo(...) and get_pull(pr_number) return; the
\* pre-merge checks run on what was fetched.
MergeGetPull ==
    /\ single.pc = "get_pull"
    /\ single' = [single EXCEPT
                     !.fetched = <<remote.pull>>,
                     !.exc = IF Refusal(remote.pull) = "none" THEN <<>>
                             ELSE <<RefusalError(single.pr_number, remote.pull)>>,
                     !.pc = IF Refusal(remote.pull) = "none" THEN "merge"
                            ELSE "except"]
    /\ UNCHANGED remote
    /\ MergeRest

\* pr.merge(merge_method=..., ...) returns.
MergeMerge ==
    /\ single.pc = "merge"
    /\ remote' = [remote EXCEPT !.pull = PullMerged(@, single.pr_number)]
    /\ single' = [single EXCEPT !.merges = @ + 1,
                                !.pc = IF single.delete_branch THEN "delete"
                                       ELSE "return"]
    /\ MergeRest

\* `if delete_branch:` get_git_ref(...) and ref.delete(); a failure is
\* logged and the merge result is returned all the same.
MergeDelete(ok) ==
    /\ single.pc = "delete"
    /\ IF ok /\ remote.pull.branch
       THEN /\ remote' = [remote EXCEPT !.pull.branch = FALSE]
            /\ single' = [single EXCEPT !.deletes = @ + 1,
                                        !.branch_deleted = TRUE,
                                        !.pc = "return"]
       ELSE /\ UNCHANGED remote
            /\ single' = [single EXCEPT !.pc = "return"]
    /\ MergeRest

\* get_pull or pr.merge raises.
MergeFail(e) ==
    /\ single.pc \in {"get_pull", "merge"}
    /\ single' = [single EXCEPT !.exc = <<e>>, !.pc = "except"]
    /\ UNCHANGED remote
    /\ MergeRest

\* The except clauses of merge_pr.
MergeRaise ==
    /\ single.pc = "except"
    /\ single' = [single EXCEPT !.raised = <<MergeExcept(single.exc[1])>>,
                                !.pc = "raised"]
    /\ UNCHANGED remote
    /\ MergeRest

\* The return statement.
MergeReturn ==
    /\ single.pc = "return"
    /\ single' = [single EXCEPT !.returned = TRUE, !.pc = "returned"]
    /\ UNCHANGED remote
    /\ MergeRest

\* The caller has the result.
MergeDone ==
    /\ single.pc \in {"returned", "raised"}
    /\ single' = MergeIdle
    /\ UNCHANGED remote
    /\ MergeRest

MergeNext ==
    \/ \E n \in PrNumbers : \E method \in MergeMethods :
         \E delete_branch \in BOOLEAN : MergeCall(n, method, delete_branch)
    \/ MergeGetPull
    \/ MergeMerge
    \/ \E ok \in BOOLEAN : MergeDelete(ok)
    \/ \E e \in SingleExcs : MergeFail(e)
    \/ MergeRaise
    \/ MergeReturn
    \/ MergeDone

MergeSpec == MergeInit /\ [][MergeNext]_vars

\* ------------------------------------------- get_ci_logs: the log tail
\*
\* tools/ci.py, get_ci_logs, the download of one job's log.  A text is a
\* sequence of atoms in which "\n" is the newline.

MaxLogLen == 4

\* text.split("\n").
RECURSIVE SplitLines(_)
SplitLines(text) ==
    IF \A i \in 1..Len(text) : text[i] # "\n" THEN <<text>>
    ELSE LET i == CHOOSE j \in 1..Len(text) :
                     /\ text[j] = "\n"
                     /\ \A h \in 1..(j - 1) : text[h] # "\n"
         IN  <<SubSeq(text, 1, i - 1)>>
             \o SplitLines(SubSeq(text, i + 1, Len(text)))

\* log_lines[-max_lines:], a Python slice: a negative start counts from
\* the end and stops at the beginning, a start of 0 (max_lines = 0) or
\* above counts from the beginning.
LastLines(log_lines, max_lines) ==
    LET start == 0 - max_lines
        first == IF start < 0
                 THEN (IF Len(log_lines) + start < 0 THEN 0
                       ELSE Len(log_lines) + start)
                 ELSE (IF start > Len(log_lines) THEN Len(log_lines)
                       ELSE start)
    IN  SubSeq(log_lines, first + 1, Len(log_lines))

\* truncated_logs for a response of the log download.
TruncatedLogs(status_code, text, max_lines) ==
    IF status_code = 200
    THEN Join(<<"\n">>, LastLines(SplitLines(text), max_lines))
    ELSE <<"Logs not available (HTTP ">> \o StrInt(status_code) \o <<")">>

RECURSIVE LogTextsOf(_)
LogTextsOf(n) ==
    IF n = 0 THEN {<<>>}
    ELSE LogTextsOf(n - 1)
         \cup {Append(t, c) : t \in LogTextsOf(n - 1), c \in {"x", "\n"}}

LogTexts == LogTextsOf(MaxLogLen)

MaxLinesInputs == {-1, 0, 1, 2, 3, 200}

LogsRest ==
    UNCHANGED <<norm, client, remote, token, github_instance, pc, tool, items,
                project_id, max_workers, workers, fut, opPc, outcome,
                work_queue, nThreads, collect_order, results, raisedExc,
                response, started, steps, clientCalls>>

\* requests.get(log_url, ...) has returned for a job of the run.
LogsInit ==
    /\ single \in {[pc |-> "downloaded", status_code |-> code, text |-> text,
                    max_lines |-> max_lines, logs |-> <<>>] :
                     code \in {200, 404}, text \in LogTexts,
                     max_lines \in MaxLinesInputs}
    /\ remote = RemoteAtCall
    /\ norm = NormIdle
    /\ client = ClientIdle
    /\ token = TRUE
    /\ github_instance = "Github"
    /\ pc = "idle"
    /\ tool = "create_issues"
    /\ items = <<>>
    /\ project_id = <<>>
    /\ max_workers = 5
    /\ workers = 0
    /\ fut = <<>>
    /\ opPc = <<>>
    /\ outcome = <<>>
    /\ work_queue = <<>>
    /\ nThreads = 0
    /\ collect_order = <<>>
    /\ results = <<>>
    /\ raisedExc = <<>>
    /\ response = <<>>
    /\ started = <<>>
    /\ steps = <<>>
    /\ clientCalls = 0

\* The job's "logs" entry is built from the response.
LogsTruncate ==
    /\ single.pc = "downloaded"
    /\ single' = [single EXCEPT
                     !.logs = TruncatedLogs(single.status_code, single.text,
                                            single.max_lines),
                     !.pc = "done"]
    /\ LogsRest

LogsNext == LogsTruncate

LogsSpec == LogsInit /\ [][LogsNext]_vars

\* --------------------------------- check_ci_status: overall conclusion
\*
\* tools/ci.py, check_ci_status.  A run is [workflow_id, conclusion]; the
\* runs of the branch come newest first; a conclusion of "None" is a run
\* that has none yet.

MaxRuns == 3

\* workflows_latest: the first run met for each workflow_id, in the order
\* the ids were first met.
RECURSIVE LatestRuns(_, _)
LatestRuns(runs, seen) ==
    IF runs = <<>> THEN <<>>
    ELSE IF Head(runs).workflow_id \in seen
         THEN LatestRuns(Tail(runs), seen)
         ELSE <<Head(runs)>>
              \o LatestRuns(Tail(runs), seen \cup {Head(runs).workflow_id})

\* [w["conclusion"] for w in workflows_list if w["conclusion"] is not None]
RECURSIVE Conclusions(_)
Conclusions(workflows_list) ==
    IF workflows_list = <<>> THEN <<>>
    ELSE (IF Head(workflows_list).conclusion # "None"
          THEN <<Head(workflows_list).conclusion>> ELSE <<>>)
         \o Conclusions(Tail(workflows_list))

\* The if / elif chain that sets overall_conclusion.
OverallConclusion(workflows_list) ==
    LET conclusions == Conclusions(workflows_list)
        Has(c) == \E k \in 1..Len(conclusions) : conclusions[k] = c
    IN  IF conclusions = <<>> THEN "None"
        ELSE IF Has("failure") THEN "failure"
        ELSE IF Has("cancelled") THEN "cancelled"
        ELSE IF \A k \in 1..Len(conclusions) : conclusions[k] = "success"
             THEN "success"
        ELSE conclusions[1]

RunConclusions == {"None", "success", "failure", "cancelled", "timed_out"}

WorkflowIds == {1, 2}

BranchRuns ==
    UNION {[1..n -> [workflow_id : WorkflowIds, conclusion : RunConclusions]] :
             n \in 1..MaxRuns}

CiRest ==
    UNCHANGED <<norm, client, remote, token, github_instance, pc, tool, items,
                project_id, max_workers, workers, fut, opPc, outcome,
                work_queue, nThreads, collect_order, results, raisedExc,
                response, started, steps, clientCalls>>

\* get_workflow_runs() has returned and the branch has runs.
CiInit ==
    /\ single \in {[pc |-> "runs", runs |-> runs, workflows |-> <<>>,
                    overall_conclusion |-> "None"] : runs \in BranchRuns}
    /\ remote = RemoteAtCall
    /\ norm = NormIdle
    /\ client = ClientIdle
    /\ token = TRUE
    /\ github_instance = "Github"
    /\ pc = "idle"
    /\ tool = "create_issues"
    /\ items = <<>>
    /\ project_id = <<>>
    /\ max_workers = 5
    /\ workers = 0
    /\ fut = <<>>
    /\ opPc = <<>>
    /\ outcome = <<>>
    /\ work_queue = <<>>
    /\ nThreads = 0
    /\ collect_order = <<>>
    /\ results = <<>>
    /\ raisedExc = <<>>
    /\ response = <<>>
    /\ started = <<>>
    /\ steps = <<>>
    /\ clientCalls = 0

\* The latest run of each workflow is picked and the overall conclusion
\* computed.
CiConclude ==
    /\ single.pc = "runs"
    /\ single' = [single EXCEPT
                     !.workflows = LatestRuns(single.runs, {}),
                     !.overall_conclusion =
                         OverallConclusion(LatestRuns(single.runs, {})),
                     !.pc = "done"]
    /\ CiRest

CiNext == CiConclude

CiSpec == CiInit /\ [][CiNext]_vars

\* ------------------------------------- get_github_client on its own
\*
\* utils/github_client.py.  Client objects are numbered as they are
\* constructed; `client.instance` is _github_instance (0 for None),
\* `client.verified` the objects whose get_user() check has completed
\* successfully, `client.thr[t]` the caller t: where it is in the
\* function, how many calls it has made, what its call returned (0: not
\* returned).  The function reads the global at each of its statements.

MaxCallers == 2

Callers == 1..MaxCallers

ClientRest ==
    UNCHANGED <<norm, single, remote, token, github_instance, pc, tool, items,
                project_id, max_workers, workers, fut, opPc, outcome,
                work_queue, nThreads, collect_order, results, raisedExc,
                response, started, steps, clientCalls>>

\* The module has been imported, or reset_github_client() has run.
ClientInit ==
    /\ client = [instance |-> 0, made |-> 0, verified |-> {},
                 thr |-> [t \in Callers |->
                            [pc |-> "out", calls |-> 0, got |-> 0]]]
    /\ single = SingleIdle
    /\ remote = RemoteAtCall
    /\ norm = NormIdle
    /\ token \in BOOLEAN
    /\ github_instance = "None"
    /\ pc = "idle"
    /\ tool = "create_issues"
    /\ items = <<>>
    /\ project_id = <<>>
    /\ max_workers = 5
    /\ workers = 0
    /\ fut = <<>>
    /\ opPc = <<>>
    /\ outcome = <<>>
    /\ work_queue = <<>>
    /\ nThreads = 0
    /\ collect_order = <<>>
    /\ results = <<>>
    /\ raisedExc = <<>>
    /\ response = <<>>
    /\ started = <<>>
    /\ steps = <<>>
    /\ clientCalls = 0

\* Caller t calls get_github_client().
GhCall(t) ==
    /\ client.thr[t].pc = "out"
    /\ client.thr[t].calls < MaxCalls
    /\ client' = [client EXCEPT !.thr[t] =
                    [pc |-> "test", calls |-> @.calls + 1, got |-> 0]]
    /\ ClientRest

\* `if _github_instance is None:` and, inside it, the token test.
GhTest(t) ==
    /\ client.thr[t].pc = "test"
    /\ client' = [client EXCEPT !.thr[t].pc =
                    IF client.instance # 0 THEN "return"
                    ELSE IF ~token THEN "raised"
                    ELSE "construct"]
    /\ ClientRest

\* `_github_instance = Github(auth=auth)`.
GhConstruct(t) ==
    /\ client.thr[t].pc = "construct"
    /\ client' = [client EXCEPT !.made = @ + 1,
                                !.instance = client.made + 1,
                                !.thr[t].pc = "verify"]
    /\ ClientRest

\* `_github_instance.get_user()` and user.login, on the object the global
\* names now; a failure is re-raised and the global is left as it is.
GhGetUser(t, user) ==
    /\ client.thr[t].pc = "verify"
    /\ client' = IF user.raised
                 THEN [client EXCEPT !.thr[t].pc = "raised"]
                 ELSE [client EXCEPT !.verified = @ \cup {client.instance},
                                     !.thr[t].pc = "return"]
    /\ ClientRest

\* `return _github_instance`.
GhReturn(t) ==
    /\ client.thr[t].pc = "return"
    /\ client' = [client EXCEPT !.thr[t].got = client.instance,
                                !.thr[t].pc = "returned"]
    /\ ClientRest

\* The caller has the client or the exception.
GhEnd(t) ==
    /\ client.thr[t].pc \in {"returned", "raised"}
    /\ client' = [client EXCEPT !.thr[t].pc = "out"]
    /\ ClientRest

ClientNext ==
    \/ \E t \in Callers : GhCall(t)
    \/ \E t \in Callers : GhTest(t)
    \/ \E t \in Callers : GhConstruct(t)
    \/ \E t \in Callers : \E user \in UserOutcomes : GhGetUser(t, user)
    \/ \E t \in Callers : GhReturn(t)
    \/ \E t \in Callers : GhEnd(t)

ClientSpec == ClientInit /\ [][ClientNext]_vars

\* --------------------------- batch_update_issues on one shared issue
\*
\* The batch tool's actions with batch_update_issues as the only tool and
\* updates that all name issue #1: two that set different titles and one
\* whose only key is not a field _update_single_issue edits.

SharedIssueUpdates ==
    { [issue_number |-> 1, title |-> <<"A">>],
      [issue_number |-> 1, title |-> <<"B">>],
      [issue_number |-> 1, priority |-> <<"high">>] }

UpdateBatches == SeqsUpTo(SharedIssueUpdates, MaxItems)

UpdateNext ==
    \/ \E batch \in UpdateBatches : \E mw \in MaxWorkersInputs :
         Call("batch_update_issues", batch, <<>>, mw)
    \/ Submit
    \/ WorkerStart
    \/ \E k \in 1..N : ClientCheck(k)
    \/ \E k \in 1..N : ClientAssign(k)
    \/ \E k \in 1..N : \E user \in UserOutcomes : ClientVerify(k, user)
    \/ \E k \in 1..N : \E fault \in Faults(PlanLen(tool, items[k])) : OpRun(k, fault)
    \/ \E k \in 1..N : Collect(k)
    \/ WorkerExit
    \/ Return
    \/ ToolDone
    \/ reset_github_client

UpdateSpec == Init /\ [][UpdateNext]_vars

\* ---------------------------------------------------------------- claims

\* The summary the call returned.
Returned == pc = "returned"

Resp == response[1]

\* Nothing of the batch has been touched: no client lookup, no pool thread,
\* no operation started, no step made.
NoWork ==
    /\ clientCalls = 0
    /\ nThreads = 0
    /\ work_queue = <<>>
    /\ \A k \in 1..N : fut[k] = "new" /\ started[k] = 0 /\ steps[k] = <<>>

\* C1: whatever the tool, the worker count and the order in which the
\* operations complete, the returned results list has one entry per input
\* item and its index values are 0, 1, ..., N-1 in this order.
C1_ResultsInInputOrder ==
    Returned =>
        /\ Len(Resp.results) = N
        /\ \A k \in 1..N : Resp.results[k].index = k - 1

\* A two-item batch whose second item completed and was collected first.
C1_Witness ==
    /\ Returned
    /\ N = 2
    /\ collect_order = <<1, 0>>
    /\ Resp.results[1].index = 0

\* C2: in a call that passed validation no operation is ever started twice,
\* and when the call ends every item's operation has been started exactly
\* once, whichever items failed.
C2_StartedExactlyOnce ==
    /\ \A k \in 1..N : started[k] <= 1
    /\ pc \in {"returned", "raised"} => \A k \in 1..N : started[k] = 1

\* The first item failed and the second still ran and succeeded.
C2_Witness ==
    /\ Returned
    /\ N = 2
    /\ ~Resp.results[1].success
    /\ Resp.results[2].success
    /\ started = <<1, 1>>

\* C3: in every returned summary total is the number of input items,
\* successful and failed count the results by their success flag, they add
\* up to total, and failed is the number of items whose operation failed.
C3_CountsAddUp ==
    Returned =>
        /\ Resp.total = N
        /\ Resp.successful =
              Cardinality({k \in 1..Len(Resp.results) : Resp.results[k].success})
        /\ Resp.failed =
              Cardinality({k \in 1..Len(Resp.results) : ~Resp.results[k].success})
        /\ Resp.successful + Resp.failed = Resp.total
        /\ Resp.failed =
              Cardinality({k \in 1..N : ~outcome[k][1].raised
                                        /\ ~outcome[k][1].v.success})

\* One item of two failed.
C3_Witness ==
    /\ Returned
    /\ N = 2
    /\ Resp.successful = 1
    /\ Resp.failed = 1

\* C4: nothing raised while a per-item operation executes leaves the tool
\* call as an exception; the call returns a summary in which every item has
\* a result and a failed item carries an error code.
C4_NoExceptionEscapes ==
    /\ pc # "raised"
    /\ Returned =>
          /\ Len(Resp.results) = N
          /\ \A k \in 1..N :
                ~Resp.results[k].success =>
                    Resp.results[k].error.code \in
                        {"RESOURCE_NOT_FOUND", "FORBIDDEN", "UNAUTHORIZED",
                         "VALIDATION_FAILED", "GITHUB_API_ERROR"}

C6_EndsAfterAllFinished ==
    pc \in {"returned", "raised"} =>
        /\ \A k \in 1..N : fut[k] = "done" /\ outcome[k] # <<>>
        /\ Running = {}
        /\ work_queue = <<>>
        /\ nThreads = 0
        /\ Returned => Len(Resp.results) = N

\* The first item's failure ended the collection early, and the call still
\* ended only after the second item had run to its end.
C6_Witness ==
    /\ pc = "raised"
    /\ N = 2
    /\ outcome[1][1].raised
    /\ started[2] = 1
    /\ fut[2] = "done"
    /\ nThreads = 0

\* C7: for each tool an empty list and a list of more than 50 items are
\* rejected with a ValueError with no client lookup, no worker and no remote
\* call; a list of 1 to 50 items is never rejected for its size, and
\* create_issues, which checks nothing else, accepts it.
C7_SizeChecks ==
    pc # "idle" =>
        /\ (N = 0 \/ N > 50) =>
              /\ pc = "rejected"
              /\ raisedExc # <<>>
              /\ raisedExc[1].type = "ValueError"
              /\ NoWork
        /\ (N \in 1..50 /\ pc = "rejected") =>
              /\ ~Contains(raisedExc[1].str, <<"cannot be empty">>)
              /\ ~Contains(raisedExc[1].str, <<"Maximum ">>)
              /\ tool # "create_issues"

\* A list of 51 items was rejected.
C7_Witness ==
    /\ pc = "rejected"
    /\ N = 51
    /\ Contains(raisedExc[1].str, <<"Maximum ", "5", "0">>)
    /\ clientCalls = 0

\* The required fields an item of a batch lacks.
MissingFields(t, item) ==
    IF t = "batch_update_issues"
    THEN {f \in {"issue_number"} : f \notin DOMAIN item}
    ELSE IF t = "batch_add_labels"
    THEN {f \in {"issue_number"} : f \notin DOMAIN item}
         \cup (IF "labels" \notin DOMAIN item THEN {"labels"}
               ELSE IF item.labels = <<>> THEN {"labels"} ELSE {})
    ELSE {}

Offenders == {k \in 1..N : MissingFields(tool, items[k]) # {}}

\* C8: a batch of batch_update_issues or batch_add_labels of 1 to 50 items
\* in which an item lacks issue_number (or, for add-labels, labels, or has
\* an empty labels list) is rejected with a ValueError whose text names the
\* index of the first such item and a field that item lacks, and nothing of
\* the batch, valid items before it included, has been dispatched.
C8_MissingFieldRejected ==
    (/\ pc # "idle"
     /\ tool \in {"batch_update_issues", "batch_add_labels"}
     /\ N \in 1..50
     /\ Offenders # {}) =>
        LET first == CHOOSE k \in Offenders : \A j \in Offenders : k <= j
        IN  /\ pc = "rejected"
            /\ raisedExc # <<>>
            /\ raisedExc[1].type = "ValueError"
            /\ \E tail \in {" missing required '", " has empty '"} :
                  Contains(raisedExc[1].str,
                      <<IF tool = "batch_update_issues"
                        THEN "Update at index " ELSE "Operation at index ">>
                      \o StrInt(first - 1) \o <<tail>>)
            /\ \E f \in MissingFields(tool, items[first]) :
                  Contains(raisedExc[1].str, <<f>>)
            /\ NoWork

\* A valid item at index 0 is followed by one with an empty labels list.
C8_Witness ==
    /\ pc = "rejected"
    /\ tool = "batch_add_labels"
    /\ N = 2
    /\ MissingFields(tool, items[1]) = {}
    /\ "labels" \in DOMAIN items[2]
    /\ "issue_number" \in DOMAIN items[2]
    /\ items[2].labels = <<>>
    /\ fut[1] = "new"

\* The items of a create_issues batch whose title is missing or empty.
Untitled == {k \in 1..N : ~HasTitle(items[k])}

\* C9 as stated: a create_issues batch with an item whose title is missing
\* or empty is rejected pre-flight, with no client lookup and no remote
\* call for any item.
C9_TitleCheckedPreflight ==
    (pc # "idle" /\ tool = "create_issues" /\ Untitled # {}) =>
        /\ pc = "rejected"
        /\ NoWork

\* C9 amended: create_issues does not check title pre-flight.  A batch of
\* 1 to 50 issues with an untitled item is accepted; the title is checked
\* inside that item's operation, after the client lookup and get_repo, so
\* the untitled item never reaches get_milestone or create_issue and, when
\* its operation returns, is reported success=false (GITHUB_API_ERROR,
\* "title is required", once the check is reached); a returned summary
\* still reports every item of the batch.
C9_TitleCheckedPerItem ==
    (pc # "idle" /\ tool = "create_issues" /\ N \in 1..50 /\ Untitled # {}) =>
        /\ pc # "rejected"
        /\ \A k \in Untitled :
              /\ ~Contains(steps[k], <<"create_issue">>)
              /\ ~Contains(steps[k], <<"get_milestone">>)
              /\ Contains(steps[k], <<"require_title">>) =>
                    /\ steps[k] = <<"get_repo", "require_title">>
                    /\ clientCalls >= 1
                    /\ ~outcome[k][1].raised
                    /\ outcome[k][1].v.error.code = "GITHUB_API_ERROR"
                    /\ outcome[k][1].v.error.message = <<"title is required">>
              /\ (outcome[k] # <<>> /\ ~outcome[k][1].raised) =>
                    ~outcome[k][1].v.success
        /\ Returned =>
              /\ Len(Resp.results) = N
              /\ \A k \in Untitled : ~Resp.results[k].success

\* A titled issue was created and the untitled one after it failed at the
\* title check, after its repository lookup.
C9_Witness ==
    /\ Returned
    /\ tool = "create_issues"
    /\ N = 2
    /\ Untitled = {2}
    /\ Resp.results[1].success
    /\ steps[1][Len(steps[1])] = "create_issue"
    /\ steps[2] = <<"get_repo", "require_title">>
    /\ ~Resp.results[2].success

\* C10: every entry of a returned summary's results carries exactly one of
\* data and error: data alone when success is true, error alone when it is
\* false.
C10_ExactlyOnePayload ==
    Returned =>
        \A k \in 1..Len(Resp.results) :
            LET r == Resp.results[k]
            IN  IF r.success
                THEN /\ "data" \in DOMAIN r
                     /\ "error" \notin DOMAIN r
                     /\ r.data # NoneVal
                ELSE /\ "error" \in DOMAIN r
                     /\ "data" \notin DOMAIN r
                     /\ r.error # NoneVal

\* A batch_operations summary with one entry of each kind.
C10_Witness ==
    /\ Returned
    /\ tool = "batch_update_issues"
    /\ N = 2
    /\ Resp.results[1].success
    /\ "data" \in DOMAIN Resp.results[1]
    /\ ~Resp.results[2].success
    /\ "error" \in DOMAIN Resp.results[2]

\* The handle_github_error call has been made and returned an error.
Normalized == norm.result # <<>> /\ ~norm.result[1].raised

NormError == norm.result[1].v

\* C11: the normalizer's checks are first-match-wins in the order 404, 403,
\* 401, 422, generic: the code it returns is that of the earliest check the
\* exception matches (by status attribute or by text), and
\* GITHUB_API_ERROR when it matches none.
C11_FirstMatchWins ==
    norm.result # <<>> =>
        LET e == norm.error
            Has(code, digits) == e.status = <<code>> \/ Contains(e.str, digits)
            has404 == Has(404, <<"4", "0", "4">>)
            has403 == Has(403, <<"4", "0", "3">>)
            has401 == Has(401, <<"4", "0", "1">>)
            has422 == Has(422, <<"4", "2", "2">>)
        IN  /\ has404 => Normalized /\ NormError.code = "RESOURCE_NOT_FOUND"
            /\ (~has404 /\ has403) => Normalized /\ NormError.code = "FORBIDDEN"
            /\ (~has404 /\ ~has403 /\ has401) =>
                    Normalized /\ NormError.code = "UNAUTHORIZED"
            /\ (~has404 /\ ~has403 /\ ~has401 /\ has422 /\ Normalized) =>
                    NormError.code = "VALIDATION_FAILED"
            /\ (~has404 /\ ~has403 /\ ~has401 /\ ~has422) =>
                    Normalized /\ NormError.code = "GITHUB_API_ERROR"

\* A plain exception whose text mentions 404 and then 403.
C11_Witness ==
    /\ Normalized
    /\ norm.error.status = <<>>
    /\ norm.error.str = <<"4", "0", "4", " ", "4", "0", "3">>
    /\ NormError.code = "RESOURCE_NOT_FOUND"

\* The codes of the error taxonomy.
Taxonomy == {"RESOURCE_NOT_FOUND", "FORBIDDEN", "UNAUTHORIZED",
             "VALIDATION_FAILED", "GITHUB_API_ERROR"}

\* The items whose operation returned a success=false result.
FailedItems ==
    {k \in 1..N : outcome[k] # <<>> /\ ~outcome[k][1].raised
                  /\ ~outcome[k][1].v.success}

\* C12 as stated: every failure, a pre-flight rejection as well as a
\* per-item error, carries a machine-readable code and at least one
\* suggestion.
C12_CodeAndSuggestionsAlways ==
    /\ pc = "rejected" =>
          /\ "code" \in DOMAIN raisedExc[1]
          /\ "suggestions" \in DOMAIN raisedExc[1]
    /\ \A k \in FailedItems :
          /\ outcome[k][1].v.error.code \in Taxonomy
          /\ outcome[k][1].v.error.suggestions # <<>>

\* C12 amended: a pre-flight rejection is a plain ValueError that carries a
\* message and neither a code nor suggestions; every per-item error carries
\* a code of the taxonomy, and its suggestions are non-empty exactly when
\* the code is not GITHUB_API_ERROR, whose suggestions list is empty.
C12_CodesAndSuggestions ==
    /\ pc = "rejected" =>
          /\ raisedExc[1].type = "ValueError"
          /\ raisedExc[1].str # <<>>
          /\ "code" \notin DOMAIN raisedExc[1]
          /\ "suggestions" \notin DOMAIN raisedExc[1]
    /\ \A k \in FailedItems :
          LET error == outcome[k][1].v.error
          IN  /\ error.code \in Taxonomy
              /\ error.suggestions # <<>> <=> error.code # "GITHUB_API_ERROR"

\* One item failed with a 404 and its suggestions, the other with the
\* generic code and none.
C12_Witness ==
    /\ Returned
    /\ N = 2
    /\ FailedItems = {1, 2}
    /\ outcome[1][1].v.error.code = "RESOURCE_NOT_FOUND"
    /\ Len(outcome[1][1].v.error.suggestions) = 2
    /\ outcome[2][1].v.error.code = "GITHUB_API_ERROR"
    /\ outcome[2][1].v.error.suggestions = <<>>

\* The edits of an update in the order the operation issues them.
EditOrder == <<"title", "body", "state", "labels", "milestone", "assignees">>

\* The edit steps among the steps an item made, by field name.
EditsMade(k) ==
    LET edits == SelectSeq(steps[k],
                    LAMBDA st : st \in {"edit_title", "edit_body", "edit_state",
                                        "edit_labels", "edit_milestone",
                                        "edit_assignees"})
        FieldOf(st) ==
            CASE st = "edit_title" -> "title" [] st = "edit_body" -> "body"
              [] st = "edit_state" -> "state" [] st = "edit_labels" -> "labels"
              [] st = "edit_milestone" -> "milestone"
              [] st = "edit_assignees" -> "assignees"
    IN  [j \in 1..Len(edits) |-> FieldOf(edits[j])]

\* The fields of EditOrder present in an update, in that order.
FieldsInOrder(update) ==
    SelectSeq(EditOrder, LAMBDA f : f \in DOMAIN update)

\* C13: an update's edits are issued in the order title, body, state,
\* labels, milestone, assignees for the fields present; when a remote call
\* of the item raises, the item makes no further call, what it had edited
\* stays edited, and its result is success=false with the normalized error.
C13_StopAndReportFailure ==
    (tool = "batch_update_issues" /\ pc # "rejected") =>
        \A k \in 1..N :
            opPc[k] = "done" =>
                LET wanted == FieldsInOrder(items[k])
                    made == EditsMade(k)
                IN  /\ Len(made) <= Len(wanted)
                    /\ made = SubSeq(wanted, 1, Len(made))
                    /\ ~outcome[k][1].raised
                    /\ outcome[k][1].v.success => made = wanted
                    /\ ~outcome[k][1].v.success =>
                          outcome[k][1].v.error.code \in Taxonomy

\* The data of the successful entries of the returned summary.
SuccessData ==
    {Resp.results[k].data : k \in {j \in 1..Len(Resp.results) :
                                      Resp.results[j].success}}

\* C14 as stated: the data of every successful result of every per-item
\* operation holds an identifier of the resource and its canonical URL.
C14_IdentifierAndUrlAlways ==
    Returned =>
        \A data \in SuccessData :
            "issue_number" \in DOMAIN data /\ "url" \in DOMAIN data

\* C14 amended: the data of every successful result holds the issue number;
\* it holds the issue's URL for create-issue and update-issue only.  The
\* data of add-labels is {issue_number, added_labels, all_labels} and that
\* of link-to-project is {issue_number, project_id, item_id}: neither has
\* a URL.
C14_IdentifierAlwaysUrlSometimes ==
    Returned =>
        \A data \in SuccessData :
            /\ "issue_number" \in DOMAIN data
            /\ "url" \in DOMAIN data <=>
                  tool \in {"create_issues", "batch_update_issues"}
            /\ tool = "create_issues" =>
                  DOMAIN data = {"issue_number", "url", "state", "title",
                                 "labels", "milestone"}
            /\ tool = "batch_update_issues" =>
                  DOMAIN data = {"issue_number", "url", "updated_fields"}
            /\ tool = "batch_add_labels" =>
                  DOMAIN data = {"issue_number", "added_labels", "all_labels"}
            /\ tool = "batch_link_to_project" =>
                  DOMAIN data = {"issue_number", "project_id", "item_id"}

\* Labels were added to an issue; the entry's data has no url.
C14_Witness ==
    /\ Returned
    /\ tool = "batch_add_labels"
    /\ Resp.results[1].success
    /\ "url" \notin DOMAIN Resp.results[1].data
    /\ Resp.results[1].data.issue_number = 1

\* The serialized payload of the error the normalizer returned.
NormPayload == GitHubAPIError_to_dict(NormError)

MentionsToken(text) == Contains(text, <<TokenValue>>)

\* C15: whatever exception is normalized, the serialized payload (message,
\* details, suggestions) does not contain the value of the credential.
C15_NoTokenInPayload ==
    Normalized =>
        /\ ~MentionsToken(NormPayload.message)
        /\ \A k \in 1..Len(NormPayload.suggestions) :
              ~MentionsToken(NormPayload.suggestions[k])
        /\ "field_errors" \in DOMAIN NormPayload.details =>
              \A k \in 1..Len(NormPayload.details.field_errors) :
                  ~MentionsToken(NormPayload.details.field_errors[k])

\* C16: every exception classified FORBIDDEN gives one and the same
\* payload, and so does every exception classified UNAUTHORIZED: message,
\* details and suggestions are fixed and hold nothing of the exception.
C16_GenericPayloads ==
    Normalized =>
        /\ NormError.code = "FORBIDDEN" =>
              NormPayload =
                [error |-> TRUE, code |-> "FORBIDDEN",
                 message |-> <<"Access denied. Check token permissions.">>,
                 details |-> [status |-> 403],
                 suggestions |->
                    << <<"Verify GITHUB_TOKEN has required scopes">>,
                       <<"Check repository access permissions">> >>]
        /\ NormError.code = "UNAUTHORIZED" =>
              NormPayload =
                [error |-> TRUE, code |-> "UNAUTHORIZED",
                 message |-> <<"Authentication failed.">>,
                 details |-> [status |-> 401],
                 suggestions |->
                    << <<"Verify GITHUB_TOKEN is valid">>,
                       <<"Token may have expired">> >>]

\* A 403 whose text carries provider detail that the payload leaves out.
C16_Witness ==
    /\ Normalized
    /\ NormError.code = "FORBIDDEN"
    /\ norm.error.str = <<"4", "0", "3", " ", TokenValue>>
    /\ ~MentionsToken(NormPayload.message)

\* What the items' operations returned, as the entries of a summary in
\* input order: a function of the batch and the per-item outcomes alone.
ExpectedResults ==
    [k \in 1..N |->
        IF tool = "create_issues" THEN outcome[k][1].v
        ELSE BatchOperationResult_to_dict(outcome[k][1].v)]

ExpectedSuccessful ==
    Cardinality({k \in 1..N : outcome[k][1].v.success})

\* C17: a call with max_workers below 1 runs with the pool size of a call
\* with max_workers = 1, a call with max_workers above 10 with that of a
\* call with max_workers = 10, and the counts and ordered results of a
\* returned summary are determined by the batch and the per-item outcomes,
\* whatever max_workers was.
C17_ClampedCallsAgree ==
    pc \notin {"idle", "rejected"} =>
        /\ max_workers < 1 => workers = 1
        /\ max_workers > 10 => workers = 10
        /\ Returned =>
              /\ Resp.results = ExpectedResults
              /\ Resp.successful = ExpectedSuccessful
              /\ Resp.failed = N - ExpectedSuccessful

\* A call with max_workers = 11 returned a two-item summary.
C17_Witness ==
    /\ Returned
    /\ max_workers = 11
    /\ workers = 10
    /\ N = 2
    /\ Resp.successful = 1
    /\ Resp.failed = 1

\* C18: create_issues with one issue, run on the calling thread without a
\* pool, returns the summary the pooled path computes from an item and its
\* outcome: the same keys, total = 1, one result with index 0 and the
\* operation's success / data / error content; an exception leaving the
\* operation leaves the call on either path.
C18_SyncPathSameSummary ==
    tool = "create_issues" =>
        /\ pc = "sync" => N = 1 /\ nThreads = 0 /\ work_queue = <<>>
        /\ Returned =>
              /\ DOMAIN Resp = {"total", "successful", "failed",
                                "success_rate", "results"}
              /\ Resp.total = N
              /\ Resp.results = ExpectedResults
              /\ Resp.successful = ExpectedSuccessful
              /\ Resp.failed = N - ExpectedSuccessful
              /\ N = 1 => Resp.results[1].index = 0 /\ nThreads = 0
        /\ pc = "raised" =>
              \E k \in 1..N : /\ outcome[k] # <<>>
                              /\ outcome[k][1].raised
                              /\ raisedExc = <<outcome[k][1].e>>

\* A single untitled issue failed on the calling thread and was reported.
C18_Witness ==
    /\ Returned
    /\ tool = "create_issues"
    /\ N = 1
    /\ started = <<1>>
    /\ Resp.total = 1
    /\ ~Resp.results[1].success
    /\ Resp.failed = 1

\* C19: between two resets the client is constructed and authenticated at
\* most once.  A worker is at the authentication step only after having
\* constructed a client of its own in this call, and no reset happens
\* during a call, so at most one worker is ever at that step.
C19_ConstructedOnce ==
    Cardinality({k \in 1..N : opPc[k] = "verify"}) <= 1

\* A call of a single-resource tool ended by raising after one of its
\* remote calls failed.
RemoteFailureEscaped ==
    /\ single.pc = "raised"
    /\ single.failed # <<>>

\* C20: every failure of a remote call inside a single-resource tool goes
\* through the error normalizer exactly once and reaches the caller as a
\* GitHubAPIError carrying a taxonomy code.
C20_RemoteFailuresNormalizedOnce ==
    /\ RemoteFailureEscaped =>
          /\ single.normalized = 1
          /\ single.escaped[1].type = "GitHubAPIError"
          /\ single.escaped[1].code \in Taxonomy
    /\ single.pc = "returned" => single.swallowed = 0

\* A close_issue call whose remote calls all returned has ended.
CloseEnded ==
    /\ single.pc \in {"returned", "raised"}
    /\ "before" \in DOMAIN single
    /\ single.faults = 0

\* C21: close_issue is idempotent on the issue state: a call on an open
\* issue and a call on the issue it has closed both return
\* state = "closed", and neither raises (the remote calls returning).
C21_CloseIsIdempotent ==
    CloseEnded =>
        /\ single.pc = "returned"
        /\ single.returned[1].state = "closed"
        /\ remote.issue.state = "closed"

\* A second call, made on the issue the first call closed, has returned.
C21_Witness ==
    /\ CloseEnded
    /\ single.calls = 1
    /\ single.before = "closed"
    /\ single.pc = "returned"
    /\ single.returned[1].state = "closed"

\* merge_pr has refused the pull request it fetched.
Refused ==
    /\ single.pc = "raised"
    /\ single.fetched # <<>>
    /\ Refusal(single.fetched[1]) # "none"

\* The words by which a refusal's message states its reason.
ReasonWords(pull) ==
    CASE Refusal(pull) = "closed" -> <<"Pull request is closed">>
      [] Refusal(pull) = "merged" -> <<"Pull request was already merged">>
      [] OTHER -> MergeableDetail(pull.mergeable_state)

\* C22: when merge_pr refuses a pull request because it is closed, already
\* merged or not mergeable, the message of the error the caller receives
\* states that reason, whatever the PR number, merge time and merge SHA.
C22_RefusalStatesReason ==
    Refused =>
        Contains(single.raised[1].message, ReasonWords(single.fetched[1]))

\* C27: pr.merge is invoked only with a method of {merge, squash, rebase}
\* and only for a fetched pull request that is not closed-unmerged, not
\* merged and whose mergeable flag is not False; in every other case no
\* merge and no branch deletion is made, and the head branch is deleted
\* only after a merge.
C27_MergeOnlyWhenAllowed ==
    single.pc # "idle" =>
        /\ single.merges > 0 =>
              /\ single.merge_method \in {"merge", "squash", "rebase"}
              /\ single.fetched # <<>>
              /\ ~(single.fetched[1].state = "closed"
                   /\ ~single.fetched[1].merged)
              /\ ~single.fetched[1].merged
              /\ single.fetched[1].mergeable # "False"
        /\ single.merges <= 1
        /\ single.deletes > 0 => single.merges = 1 /\ single.delete_branch
        /\ single.pc = "merge" =>
              single.merge_method \in {"merge", "squash", "rebase"}
        /\ (single.pc = "raised" /\ single.merges = 0) =>
              /\ single.deletes = 0
              /\ single.fetched # <<>> => remote.pull = single.fetched[1]

\* After a call that merged and deleted the branch, a call found the pull
\* request merged and refused it without a merge call.
C27_Witness ==
    /\ Refused
    /\ single.merges = 0
    /\ single.deletes = 0
    /\ single.fetched[1].merged
    /\ ~remote.pull.branch

\* The last n lines of a list of lines, all of them when there are fewer.
LastN(lines, n) ==
    IF n >= Len(lines) THEN lines
    ELSE SubSeq(lines, Len(lines) - n + 1, Len(lines))

\* C23: for every max_lines and every downloaded log, the logs returned
\* for a job have at most max_lines lines, namely the last max_lines lines
\* of the log (the whole log when it has fewer).
C23_AtMostMaxLines ==
    (single.pc = "done" /\ single.status_code = 200) =>
        IF single.max_lines >= 1
        THEN /\ Len(SplitLines(single.logs)) <= single.max_lines
             /\ SplitLines(single.logs)
                   = LastN(SplitLines(single.text), single.max_lines)
        ELSE single.logs = <<>>

\* The conclusions of the latest run of each workflow of the branch, read
\* off the runs: a run is latest when no earlier run in the list (which is
\* newest first) is of the same workflow.
LatestConclusions ==
    {single.runs[k].conclusion : k \in
        {j \in 1..Len(single.runs) :
           \A i \in 1..(j - 1) :
              single.runs[i].workflow_id # single.runs[j].workflow_id}}

CiDone == single.pc = "done"

\* C24: over the latest run of each workflow of the branch, the overall
\* conclusion is "failure" if any completed workflow failed, else
\* "cancelled" if any was cancelled, else "success" only if all succeeded,
\* and null when no workflow has a conclusion yet.  A workflow whose latest
\* run has no conclusion yet is left out of "all".
C24_OverallConclusion ==
    CiDone =>
        /\ "failure" \in LatestConclusions
              => single.overall_conclusion = "failure"
        /\ ("failure" \notin LatestConclusions
            /\ "cancelled" \in LatestConclusions)
              => single.overall_conclusion = "cancelled"
        /\ single.overall_conclusion = "success"
              => LatestConclusions \ {"None"} = {"success"}
        /\ LatestConclusions = {"None"}
              => single.overall_conclusion = "None"

\* A call has passed validation and has not ended.
Accepted == pc \in {"submit", "sync", "collect", "shutdown"}

\* C25: if every remote call returns or raises, every batch call that
\* passes validation eventually returns its summary, for every batch size
\* and worker count.
C25_EventuallyReturnsSummary == Accepted ~> pc = "returned"

\* C26: get_github_client returns a client only if the get_user() check
\* of that client object has completed successfully -- also after a call
\* in which the check failed, and while another caller's first-use check
\* is still under way.
C26_ReturnsOnlyVerified ==
    \A t \in Callers :
        client.thr[t].pc = "returned" => client.thr[t].got \in client.verified

\* The code the taxonomy gives to a numeric status.
CodeForStatus(status) ==
    CASE status = 404 -> "RESOURCE_NOT_FOUND"
      [] status = 403 -> "FORBIDDEN"
      [] status = 401 -> "UNAUTHORIZED"
      [] status = 422 -> "VALIDATION_FAILED"

\* C28: when the exception given to the normalizer carries a numeric status
\* of 404, 403, 401 or 422, the resulting code is the one for that status,
\* whatever digits appear in the exception's text.
C28_StatusDecidesCode ==
    (/\ Normalized
     /\ norm.error.status # <<>>
     /\ norm.error.status[1] \in {404, 403, 401, 422})
        => NormError.code = CodeForStatus(norm.error.status[1])

\* The fields _update_single_issue edits, each with its edit call.
EditableFields == {"title", "body", "state", "labels", "milestone", "assignees"}

EditStepOf(field) ==
    CASE field = "title" -> "edit_title"
      [] field = "body" -> "edit_body"
      [] field = "state" -> "edit_state"
      [] field = "labels" -> "edit_labels"
      [] field = "milestone" -> "edit_milestone"
      [] field = "assignees" -> "edit_assignees"

\* Item k's operation has returned a success result.
Succeeded(k) ==
    /\ outcome[k] # <<>>
    /\ ~outcome[k][1].raised
    /\ outcome[k][1].v.success

\* C29: in a successful per-item update result, updated_fields lists
\* exactly the fields for which a remote edit was issued on that issue:
\* every listed name is one of the six editable fields and was applied, and
\* no applied field is missing.
C29_UpdatedFieldsAreTheEdits ==
    tool = "batch_update_issues" =>
        \A k \in 1..N :
            Succeeded(k) =>
                outcome[k][1].v.data.updated_fields
                    = {f \in EditableFields :
                         \E j \in 1..Len(steps[k]) : steps[k][j] = EditStepOf(f)}

\* Issue #1 after the updates of `batch` have been applied one after the
\* other in the order of the list, from position k on.
RECURSIVE InListOrder(_, _, _)
InListOrder(issue, batch, k) ==
    IF k > Len(batch) THEN issue
    ELSE InListOrder(EditFields(issue, UpdatePlan(WithoutNumber(batch[k])),
                                WithoutNumber(batch[k])),
                     batch, k + 1)

\* C30: for every accepted batch_update_issues batch, also one in which two
\* items name the same issue, the final remote state of the issue after the
\* call returns is the same under every interleaving of the workers: it is
\* a function of the input list (the updates applied in list order).
C30_FinalStateFromInputOnly ==
    (/\ tool = "batch_update_issues"
     /\ pc = "returned"
     /\ \A k \in 1..N : Succeeded(k))
        => remote.issue = InListOrder(InitialIssue, items, 1)

====
